---- MODULE Spec2Model ----
(***************************************************************************)
(* Row-level-security model of the edumanager schema migration             *)
(* (supabase/migrations/20251225093753_...sql): the four relations, the    *)
(* has_role and get_user_student_id resolvers, every RLS policy, the       *)
(* handle_new_user provisioning trigger and the referential actions.       *)
(*                                                                         *)
(* A statement is one atomic action (PostgreSQL runs each statement, with  *)
(* the triggers it fires, in one transaction).  Row ids stand for the      *)
(* UUIDs of gen_random_uuid().  The created_at / updated_at columns of      *)
(* courses, students and profiles are part of no policy or constraint;     *)
(* they are held apart from the other columns, in stamps, under the key of *)
(* the row, and clock is the time now() returns.  ui is what the Students  *)
(* or Courses page of pages/Students.tsx shows after its last handler, or  *)
(* what the Dashboard holds: the values of useAuth, its state and the      *)
(* requests it has sent and not yet heard from.                            *)
(*                                                                         *)
(* Where statements of several sessions run at once, a statement is two    *)
(* steps, the write of its rows and its commit; txs holds, for each        *)
(* session, the statement in flight with the rows it has written and not   *)
(* yet committed.                                                          *)
(***************************************************************************)
EXTENDS Integers, FiniteSets, Sequences, TLC

VARIABLES users, courses, students, user_roles, profiles, last, clock, stamps, ui, txs

vars == <<users, courses, students, user_roles, profiles, last, clock, stamps, ui, txs>>
db == <<users, courses, students, user_roles, profiles>>

(***************************************************************************)
(* Bounds and value domains                                                *)
(***************************************************************************)
MaxCourses == 2
MaxStudents == 2
MaxClock == 2
\* the requests one Dashboard has in flight at a time
MaxFetches == 2

NULL == "NULL"
Identities == {"u1", "u2"}
\* the identity the database owner makes admin when a deployment is seeded
FirstAdmin == "u1"
app_role == {"admin", "student"}
\* row ids: the i-th UUID handed out for a table
RowId(prefix, i) == prefix \o ToString(i)
CourseIds == {RowId("c", i) : i \in 1..MaxCourses}
StudentIds == {RowId("s", i) : i \in 1..MaxStudents}

VarcharName == 255
VarcharCode == 50

\* the text s written n times
RECURSIVE Repeat(_, _)
Repeat(s, n) ==
  IF n = 0 THEN ""
  ELSE IF n % 2 = 0 THEN LET half == Repeat(s, n \div 2) IN half \o half
  ELSE s \o Repeat(s, n - 1)
\* a text one character longer than VARCHAR(255) admits
LongText == Repeat("x", VarcharName + 1)

Names == {"Ann"}
CourseNames == {"Algebra"}
Emails == {"a@x.io", "b@x.io"}
Codes == {"CS101", "MA201"}
Durations == {6}
Usernames == {"alice"}

\* SQL comparison a = b used in a WHERE / USING clause: the row passes only
\* when the comparison is TRUE; NULL = anything is NULL, which does not pass.
SqlEqTrue(a, b) == a # NULL /\ b # NULL /\ a = b

\* VARCHAR(n): a longer value raises 22001 (string_data_right_truncation)
VarcharOk(v, n) == v = NULL \/ Len(v) <= n

Min(S) == CHOOSE x \in S : \A y \in S : x <= y

\* gen_random_uuid(): an id no row of the table has (the first free one)
FreshId(prefix, n, used) ==
  RowId(prefix, Min({i \in 1..n : RowId(prefix, i) \notin used}))

(***************************************************************************)
(* Resolvers                                                               *)
(***************************************************************************)
\* has_role with the role comparison lost: any role row of the user counts
has_role_anyrole(_user_id, _role) ==
  \E r \in user_roles : SqlEqTrue(r.user_id, _user_id)

\* has_role answering from the role rows the deployment started with
has_role_asfirst(_user_id, _role) ==
  SqlEqTrue(_user_id, FirstAdmin) /\ SqlEqTrue(_role, "admin")

\* public.has_role: SELECT EXISTS (SELECT 1 FROM user_roles WHERE ...)
has_role(_user_id, _role) ==
  \E r \in user_roles : SqlEqTrue(r.user_id, _user_id) /\ SqlEqTrue(r.role, _role)

\* the rows of a table
Rows(tbl) ==
  CASE tbl = "courses" -> courses
    [] tbl = "students" -> students
    [] tbl = "user_roles" -> user_roles
    [] tbl = "profiles" -> profiles

\* public.get_user_student_id: SELECT id FROM students WHERE user_id = _user_id
\* LIMIT 1, with no ORDER BY: any matching row may be the one returned, and
\* the result is NULL when no row matches.  The set of possible results.
get_user_student_id(_user_id) ==
  LET hit == {s \in students : SqlEqTrue(s.user_id, _user_id)}
  IN  IF hit = {} THEN {NULL} ELSE {s.id : s \in hit}

\* auth.uid() of a request made with the authenticated role
Requesters == Identities

(***************************************************************************)
(* Policies.  Each is TO authenticated; policies of one command are        *)
(* OR-combined; a command with no policy is denied for every row.          *)
(***************************************************************************)
courses_select(uid, row) == TRUE
courses_insert(uid, row) == has_role(uid, "admin")
courses_update(uid, row) == has_role(uid, "admin")
\* the delete policy written like the select policy, USING (true)
courses_delete_open(uid, row) == TRUE
courses_delete(uid, row) == has_role(uid, "admin")

\* the two SELECT policies of students combined as AS RESTRICTIVE policies
\* are: a row passes only when every clause holds
students_select_restrictive(uid, row) ==
  /\ has_role(uid, "admin")
  /\ SqlEqTrue(row.user_id, uid)
students_select(uid, row) ==
  \/ has_role(uid, "admin")
  \/ SqlEqTrue(row.user_id, uid)
students_insert(uid, row) == has_role(uid, "admin")
\* a profiles update policy with USING (true) and no check of the new row
profiles_update_open(uid, row) == TRUE
\* an update policy that also lets the owner of the row through
students_update_own(uid, row) ==
  has_role(uid, "admin") \/ SqlEqTrue(row.user_id, uid)
students_update(uid, row) == has_role(uid, "admin")
students_delete(uid, row) == has_role(uid, "admin")

\* "Admins can manage roles" is FOR ALL: it is a policy of every command
user_roles_manage(uid, row) == has_role(uid, "admin")
\* a SELECT policy written like the one of courses, USING (true)
user_roles_select_all(uid, row) == TRUE
user_roles_select(uid, row) ==
  \/ SqlEqTrue(row.user_id, uid)
  \/ has_role(uid, "admin")
  \/ user_roles_manage(uid, row)
\* insert and delete policies that also pass the requester's own rows
user_roles_insert_own(uid, row) ==
  user_roles_manage(uid, row) \/ SqlEqTrue(row.user_id, uid)
user_roles_delete_own(uid, row) ==
  user_roles_manage(uid, row) \/ SqlEqTrue(row.user_id, uid)
user_roles_insert(uid, row) == user_roles_manage(uid, row)
\* an update policy with USING (true)
user_roles_update_open(uid, row) == TRUE
user_roles_update(uid, row) == user_roles_manage(uid, row)
user_roles_delete(uid, row) == user_roles_manage(uid, row)

profiles_select(uid, row) ==
  \/ SqlEqTrue(row.user_id, uid)
  \/ has_role(uid, "admin")
\* an update policy that lets an admin through as the SELECT policies do
profiles_update_admin(uid, row) ==
  SqlEqTrue(row.user_id, uid) \/ has_role(uid, "admin")
profiles_update(uid, row) == SqlEqTrue(row.user_id, uid)
profiles_insert(uid, row) == SqlEqTrue(row.user_id, uid)
\* a delete policy for the owner of the row, as the update policy is
profiles_delete_own(uid, row) == SqlEqTrue(row.user_id, uid)
profiles_delete(uid, row) == FALSE

(***************************************************************************)
(* Outcome of the last statement: who issued it (the function argument,    *)
(* for a resolver call), its SQLSTATE in res ("ok" when none was raised),  *)
(* the number of rows affected / returned in out and, in val, the id or    *)
(* key the statement aimed at or the value the function returned.          *)
(***************************************************************************)
Result(op, tbl, by, res, out, val) ==
  [op |-> op, tbl |-> tbl, by |-> by, res |-> res, out |-> out, val |-> val]

(***************************************************************************)
(* Timestamp columns                                                       *)
(***************************************************************************)
Times == 0..MaxClock

\* created_at / updated_at of a payload: {} for a column the payload leaves
\* out, {t} for a value it carries
NoStamps == [created_at |-> {}, updated_at |-> {}]
StampPayloads == [created_at : {{}} \cup {{t} : t \in Times},
                  updated_at : {{}} \cup {{t} : t \in Times}]

\* the tables with an update_..._updated_at trigger
TimestampedTables == {"courses", "students", "profiles"}

\* the key stamps holds a row under: the id of a courses or students row,
\* the user_id of a profiles row
RowKeys == {c.id : c \in courses} \cup {s.id : s \in students}
             \cup {p.user_id : p \in profiles}

\* the trigger function returning NEW as it came
update_updated_at_column_keep(NEWROW, now) == NEWROW

\* public.update_updated_at_column, BEFORE UPDATE FOR EACH ROW:
\* NEW.updated_at = now(); RETURN NEW
update_updated_at_column(NEWROW, now) == [NEWROW EXCEPT !.updated_at = now]

\* The timestamp columns after the statement whose outcome is last', sent
\* with the timestamp payload ts.  An inserted row takes DEFAULT now() for a
\* column the payload leaves out.  An UPDATE sets the columns the payload
\* carries and then runs the trigger on the row.  The referential action
\* ON DELETE SET NULL is an UPDATE of the referencing students rows, so it
\* fires their trigger as well.
Timestamps(ts) ==
  LET updated ==
        IF last'.op = "update" /\ last'.out = 1 /\ last'.tbl \in TimestampedTables
          THEN {last'.val}
        ELSE IF last'.op = "delete" /\ last'.out = 1 /\ last'.tbl = "courses"
          THEN {s.id : s \in {s \in students : s.course_id = last'.val}}
        ELSE {}
      direct == last'.op = "update"
      Given(col, dflt) ==
        IF ts[col] = {} THEN dflt ELSE CHOOSE t \in ts[col] : TRUE
  IN  stamps' =
        [k \in RowKeys' |->
           IF k \notin DOMAIN stamps
             THEN [created_at |-> Given("created_at", clock),
                   updated_at |-> Given("updated_at", clock)]
           ELSE IF k \in updated
             THEN update_updated_at_column(
                    IF direct
                      THEN [created_at |-> Given("created_at", stamps[k].created_at),
                            updated_at |-> Given("updated_at", stamps[k].updated_at)]
                      ELSE stamps[k],
                    clock)
           ELSE stamps[k]]

\* a statement sent to the API as it is, from no page
ApiCall(ts) == Timestamps(ts) /\ UNCHANGED <<clock, ui, txs>>

\* time passes
Tick ==
  /\ clock < MaxClock
  /\ clock' = clock + 1
  /\ UNCHANGED <<db, last, stamps, ui, txs>>

(***************************************************************************)
(* What a page shows                                                       *)
(***************************************************************************)
\* A text typed into a form field is the sequence of its characters.
Lower == <<"a", "b", "c", "d", "e", "f", "g", "h", "i", "j", "k", "l", "m",
           "n", "o", "p", "q", "r", "s", "t", "u", "v", "w", "x", "y", "z">>
Upper == <<"A", "B", "C", "D", "E", "F", "G", "H", "I", "J", "K", "L", "M",
           "N", "O", "P", "Q", "R", "S", "T", "U", "V", "W", "X", "Y", "Z">>

\* String.prototype.toUpperCase: each lower-case letter becomes its capital
toUpperCase(t) ==
  [i \in DOMAIN t |->
     IF \E j \in DOMAIN Lower : Lower[j] = t[i]
       THEN Upper[CHOOSE j \in DOMAIN Lower : Lower[j] = t[i]]
       ELSE t[i]]

\* String.prototype.trim: the text without leading and trailing blanks
RECURSIVE trim(_)
trim(t) ==
  IF t = <<>> THEN t
  ELSE IF Head(t) = " " THEN trim(Tail(t))
  ELSE IF t[Len(t)] = " " THEN trim(SubSeq(t, 1, Len(t) - 1))
  ELSE t

\* the string value sent in a payload for a text
RECURSIVE Str(_)
Str(t) == IF t = <<>> THEN "" ELSE Head(t) \o Str(Tail(t))

\* A message is the sequence of its words; a text of the page itself is
\* kept in one piece.  String.prototype.includes for a word:
includes(message, word) == \E i \in DOMAIN message : message[i] = word

\* error.message of the { error } a supabase call returns: the message
\* PostgreSQL raises with the SQLSTATE
ErrorMessage(res, tbl) ==
  CASE res = "23505" -> <<"duplicate", "key", "value", "violates", "unique", "constraint">>
    [] res = "42501" -> <<"new", "row", "violates", "row-level", "security", "policy",
                          "for", "table", tbl>>
    [] res = "23502" -> <<"null", "value", "in", "column", "violates", "not-null", "constraint">>
    [] res = "23503" -> <<"insert", "or", "update", "on", "table", tbl, "violates",
                          "foreign", "key", "constraint">>
    [] res = "22001" -> <<"value", "too", "long", "for", "type", "character", "varying">>
    [] OTHER -> <<"canceling", "statement">>

NoToast == [kind |-> "none", message |-> <<>>]
ToastSuccess(text) == [kind |-> "success", message |-> <<text>>]
ToastError(message) == [kind |-> "error", message |-> message]
FieldError(field, text) == [field |-> field, message |-> text]

\* the statistics of the Dashboard; averageStudentsPerCourse is held in
\* tenths
Stats(totalStudents, totalCourses, averageStudentsPerCourse) ==
  [totalStudents |-> totalStudents, totalCourses |-> totalCourses,
   averageStudentsPerCourse |-> averageStudentsPerCourse]

\* no page mounted; isAdmin, stats, studentProfile, loading and fetches are
\* the Dashboard's, with the initial values of its useState calls
NoPage ==
  [page |-> "none", user |-> NULL, isDialogOpen |-> FALSE, editing |-> NULL,
   formErrors |-> {}, toast |-> NoToast,
   isAdmin |-> FALSE, stats |-> Stats(0, 0, 0), studentProfile |-> NULL,
   loading |-> TRUE, fetches |-> {}]

(***************************************************************************)
(* Sessions.  PostgreSQL runs the statements of different sessions at the  *)
(* same time (READ COMMITTED): what a statement has written is seen by the *)
(* others once it commits, and a statement that meets an uncommitted write *)
(* of another on the same row, the same unique key or a referenced key     *)
(* waits for that session to finish.                                       *)
(***************************************************************************)
Sessions == {"t1", "t2"}

NoRows == [users |-> {}, courses |-> {}, students |-> {}, user_roles |-> {}, profiles |-> {}]

\* a statement in flight: the rows it has written (adds) and the row
\* versions it has replaced or removed (dels), none of them committed
Tx(op, tbl, by, val, pc, fault, adds, dels) ==
  [op |-> op, tbl |-> tbl, by |-> by, val |-> val, pc |-> pc, fault |-> fault,
   adds |-> adds, dels |-> dels]

\* a session with no statement in flight
Idle == Tx("none", "none", NULL, NULL, "idle", "none", NoRows, NoRows)

\* The migration creates the tables empty and seeds no role: the first admin
\* row is written by the database owner, whom no policy binds.  A deployment
\* starts empty, or with the identity FirstAdmin provisioned and made admin.
Init ==
  /\ \/ /\ users = {}
        /\ user_roles = {}
        /\ profiles = {}
     \/ /\ users = {FirstAdmin}
        /\ user_roles = {[user_id |-> FirstAdmin, role |-> "student"],
                         [user_id |-> FirstAdmin, role |-> "admin"]}
        /\ profiles = {[user_id |-> FirstAdmin, username |-> NULL]}
  /\ courses = {}
  /\ students = {}
  /\ last = Result("none", "none", NULL, "ok", 0, NULL)
  /\ clock = 0
  /\ stamps = [k \in {p.user_id : p \in profiles} |-> [created_at |-> 0, updated_at |-> 0]]
  /\ ui = NoPage
  /\ txs = [t \in Sessions |-> Idle]

(***************************************************************************)
(* courses                                                                 *)
(***************************************************************************)
CoursePayloads ==
  [course_name : CourseNames \cup {NULL, LongText},
   course_code : Codes \cup {NULL},
   course_duration : Durations]

\* SQLSTATE an INSERT of new into courses ends with
courses_insert_result(uid, new) ==
  IF ~VarcharOk(new.course_name, VarcharName) \/ ~VarcharOk(new.course_code, VarcharCode)
    THEN "22001"
  ELSE IF ~courses_insert(uid, new) THEN "42501"
  ELSE IF new.course_name = NULL \/ new.course_code = NULL THEN "23502"
  ELSE IF \E c \in courses : c.course_code = new.course_code THEN "23505"
  ELSE "ok"

InsertCourses(uid, new) ==
  /\ {c.id : c \in courses} # CourseIds
  /\ LET id == FreshId("c", MaxCourses, {c.id : c \in courses})
         res == courses_insert_result(uid, new)
     IN  /\ courses' = IF res = "ok"
                         THEN courses \cup {[id |-> id] @@ new}
                         ELSE courses
         /\ last' = Result("insert", "courses", uid, res, IF res = "ok" THEN 1 ELSE 0, NULL)
  /\ UNCHANGED <<users, students, user_roles, profiles>>

\* SQLSTATE an UPDATE ... SET new WHERE id = old.id ends with, for a row old
\* that passed the USING clauses.  A policy without WITH CHECK applies its
\* USING expression to the new row.
courses_update_result(uid, old, new) ==
  IF ~VarcharOk(new.course_name, VarcharName) \/ ~VarcharOk(new.course_code, VarcharCode)
    THEN "22001"
  ELSE IF ~courses_update(uid, [id |-> old.id] @@ new) THEN "42501"
  ELSE IF new.course_name = NULL \/ new.course_code = NULL THEN "23502"
  ELSE IF \E c \in courses \ {old} : c.course_code = new.course_code THEN "23505"
  ELSE "ok"

UpdateCourses(uid, id, new) ==
  /\ LET hit == {c \in courses : c.id = id /\ courses_select(uid, c) /\ courses_update(uid, c)}
     IN  IF hit = {}
           THEN /\ courses' = courses
                /\ last' = Result("update", "courses", uid, "ok", 0, id)
           ELSE LET old == CHOOSE c \in hit : TRUE
                    res == courses_update_result(uid, old, new)
                IN  /\ courses' = IF res = "ok"
                                    THEN (courses \ {old}) \cup {[id |-> id] @@ new}
                                    ELSE courses
                    /\ last' = Result("update", "courses", uid, res, IF res = "ok" THEN 1 ELSE 0, id)
  /\ UNCHANGED <<users, students, user_roles, profiles>>

\* the delete with students.course_id declared ON DELETE CASCADE
DeleteCourses_cascade(uid, id) ==
  /\ LET hit == {c \in courses : c.id = id /\ courses_select(uid, c) /\ courses_delete(uid, c)}
     IN  /\ courses' = courses \ hit
         /\ students' = IF hit = {} THEN students
                        ELSE {s \in students : s.course_id # id}
         /\ last' = Result("delete", "courses", uid, "ok", Cardinality(hit), id)
  /\ UNCHANGED <<users, user_roles, profiles>>

\* DELETE FROM courses WHERE id = ...; students.course_id is ON DELETE SET NULL
DeleteCourses(uid, id) ==
  /\ LET hit == {c \in courses : c.id = id /\ courses_select(uid, c) /\ courses_delete(uid, c)}
     IN  /\ courses' = courses \ hit
         /\ students' = IF hit = {} THEN students
                        ELSE {IF s.course_id = id THEN [s EXCEPT !.course_id = NULL] ELSE s
                              : s \in students}
         /\ last' = Result("delete", "courses", uid, "ok", Cardinality(hit), id)
  /\ UNCHANGED <<users, user_roles, profiles>>

\* SELECT * FROM courses as uid: the rows the SELECT policy passes
courses_visible(uid) == {c \in courses : courses_select(uid, c)}

SelectCourses(uid) ==
  /\ last' = Result("select", "courses", uid, "ok", Cardinality(courses_visible(uid)), NULL)
  /\ UNCHANGED db

(***************************************************************************)
(* students                                                                *)
(***************************************************************************)
StudentPayloads ==
  [name : Names,
   email : Emails,
   course_id : CourseIds \cup {NULL},
   user_id : Identities \cup {NULL}]

\* the constraints of a table whose email column is not declared UNIQUE
students_constraints_noemail(others, new) ==
  IF new.name = NULL \/ new.email = NULL THEN "23502"
  ELSE IF new.course_id # NULL /\ new.course_id \notin {c.id : c \in courses} THEN "23503"
  ELSE IF new.user_id # NULL /\ new.user_id \notin users THEN "23503"
  ELSE "ok"

\* NOT NULL, UNIQUE (email) and the two foreign keys, for a row written
\* into the table others (the rows it is checked against)
students_constraints(others, new) ==
  IF new.name = NULL \/ new.email = NULL THEN "23502"
  ELSE IF \E s \in others : s.email = new.email THEN "23505"
  ELSE IF new.course_id # NULL /\ new.course_id \notin {c.id : c \in courses} THEN "23503"
  ELSE IF new.user_id # NULL /\ new.user_id \notin users THEN "23503"
  ELSE "ok"

students_insert_result(uid, new) ==
  IF ~VarcharOk(new.name, VarcharName) \/ ~VarcharOk(new.email, VarcharName) THEN "22001"
  ELSE IF ~students_insert(uid, new) THEN "42501"
  ELSE students_constraints(students, new)

InsertStudents(uid, new) ==
  /\ {s.id : s \in students} # StudentIds
  /\ LET id == FreshId("s", MaxStudents, {s.id : s \in students})
         res == students_insert_result(uid, new)
     IN  /\ students' = IF res = "ok"
                          THEN students \cup {[id |-> id] @@ new}
                          ELSE students
         /\ last' = Result("insert", "students", uid, res, IF res = "ok" THEN 1 ELSE 0, NULL)
  /\ UNCHANGED <<users, courses, user_roles, profiles>>

students_update_result(uid, old, new) ==
  IF ~VarcharOk(new.name, VarcharName) \/ ~VarcharOk(new.email, VarcharName) THEN "22001"
  ELSE IF ~students_update(uid, [id |-> old.id] @@ new) THEN "42501"
  ELSE students_constraints(students \ {old}, new)

UpdateStudents(uid, id, new) ==
  /\ LET hit == {s \in students : s.id = id /\ students_select(uid, s) /\ students_update(uid, s)}
     IN  IF hit = {}
           THEN /\ students' = students
                /\ last' = Result("update", "students", uid, "ok", 0, id)
           ELSE LET old == CHOOSE s \in hit : TRUE
                    res == students_update_result(uid, old, new)
                IN  /\ students' = IF res = "ok"
                                     THEN (students \ {old}) \cup {[id |-> id] @@ new}
                                     ELSE students
                    /\ last' = Result("update", "students", uid, res, IF res = "ok" THEN 1 ELSE 0, id)
  /\ UNCHANGED <<users, courses, user_roles, profiles>>

DeleteStudents(uid, id) ==
  /\ LET hit == {s \in students : s.id = id /\ students_select(uid, s) /\ students_delete(uid, s)}
     IN  /\ students' = students \ hit
         /\ last' = Result("delete", "students", uid, "ok", Cardinality(hit), id)
  /\ UNCHANGED <<users, courses, user_roles, profiles>>

\* SELECT * FROM students as uid: the rows a SELECT policy passes
students_visible(uid) == {s \in students : students_select(uid, s)}

SelectStudents(uid) ==
  /\ last' = Result("select", "students", uid, "ok", Cardinality(students_visible(uid)), NULL)
  /\ UNCHANGED db

(***************************************************************************)
(* user_roles.  UNIQUE (user_id, role) makes the pair a key of the row; it *)
(* stands for the row's id.                                                *)
(***************************************************************************)
RolePayloads == [user_id : Identities, role : app_role]

\* the key of a user_roles row, as the text recorded in last.val
RoleKeyText(r) == r.user_id \o "/" \o r.role

user_roles_constraints(others, new, auth_users) ==
  IF new.user_id = NULL \/ new.role = NULL THEN "23502"
  ELSE IF \E r \in others : r.user_id = new.user_id /\ r.role = new.role THEN "23505"
  ELSE IF new.user_id \notin auth_users THEN "23503"
  ELSE "ok"

user_roles_insert_result(uid, new) ==
  IF ~user_roles_insert(uid, new) THEN "42501"
  ELSE user_roles_constraints(user_roles, new, users)

InsertUserRoles(uid, new) ==
  /\ LET res == user_roles_insert_result(uid, new)
     IN  /\ user_roles' = IF res = "ok" THEN user_roles \cup {new} ELSE user_roles
         /\ last' = Result("insert", "user_roles", uid, res, IF res = "ok" THEN 1 ELSE 0, RoleKeyText(new))
  /\ UNCHANGED <<users, courses, students, profiles>>

\* has_role is STABLE: inside one statement it reads the snapshot taken when
\* the statement began, so the check of the new row sees the old user_roles
user_roles_update_result(uid, old, new) ==
  IF ~user_roles_update(uid, new) THEN "42501"
  ELSE user_roles_constraints(user_roles \ {old}, new, users)

UpdateUserRoles(uid, key, new) ==
  /\ LET hit == {r \in user_roles :
                   r = key /\ user_roles_select(uid, r) /\ user_roles_update(uid, r)}
     IN  IF hit = {}
           THEN /\ user_roles' = user_roles
                /\ last' = Result("update", "user_roles", uid, "ok", 0, RoleKeyText(key))
           ELSE LET res == user_roles_update_result(uid, key, new)
                IN  /\ user_roles' = IF res = "ok"
                                       THEN (user_roles \ {key}) \cup {new}
                                       ELSE user_roles
                    /\ last' = Result("update", "user_roles", uid, res, IF res = "ok" THEN 1 ELSE 0, RoleKeyText(key))
  /\ UNCHANGED <<users, courses, students, profiles>>

DeleteUserRoles(uid, key) ==
  /\ LET hit == {r \in user_roles :
                   r = key /\ user_roles_select(uid, r) /\ user_roles_delete(uid, r)}
     IN  /\ user_roles' = user_roles \ hit
         /\ last' = Result("delete", "user_roles", uid, "ok", Cardinality(hit), RoleKeyText(key))
  /\ UNCHANGED <<users, courses, students, profiles>>

\* SELECT * FROM user_roles as uid
user_roles_visible(uid) == {r \in user_roles : user_roles_select(uid, r)}

SelectUserRoles(uid) ==
  /\ last' = Result("select", "user_roles", uid, "ok", Cardinality(user_roles_visible(uid)), NULL)
  /\ UNCHANGED db

(***************************************************************************)
(* profiles.  UNIQUE (user_id) NOT NULL makes user_id a key of the row.    *)
(***************************************************************************)
ProfilePayloads == [user_id : Identities, username : Usernames \cup {NULL}]

\* the constraints of a table that declares username, not user_id, UNIQUE
profiles_constraints_username(others, new, auth_users) ==
  IF ~VarcharOk(new.username, VarcharName) THEN "22001"
  ELSE IF new.user_id = NULL THEN "23502"
  ELSE IF \E p \in others : SqlEqTrue(p.username, new.username) THEN "23505"
  ELSE IF new.user_id \notin auth_users THEN "23503"
  ELSE "ok"

profiles_constraints(others, new, auth_users) ==
  IF ~VarcharOk(new.username, VarcharName) THEN "22001"
  ELSE IF new.user_id = NULL THEN "23502"
  ELSE IF \E p \in others : p.user_id = new.user_id THEN "23505"
  ELSE IF new.user_id \notin auth_users THEN "23503"
  ELSE "ok"

profiles_insert_result(uid, new) ==
  IF ~VarcharOk(new.username, VarcharName) THEN "22001"
  ELSE IF ~profiles_insert(uid, new) THEN "42501"
  ELSE profiles_constraints(profiles, new, users)

InsertProfiles(uid, new) ==
  /\ LET res == profiles_insert_result(uid, new)
     IN  /\ profiles' = IF res = "ok" THEN profiles \cup {new} ELSE profiles
         /\ last' = Result("insert", "profiles", uid, res, IF res = "ok" THEN 1 ELSE 0, NULL)
  /\ UNCHANGED <<users, courses, students, user_roles>>

profiles_update_result(uid, old, new) ==
  IF ~VarcharOk(new.username, VarcharName) THEN "22001"
  ELSE IF ~profiles_update(uid, new) THEN "42501"
  ELSE profiles_constraints(profiles \ {old}, new, users)

UpdateProfiles(uid, key, new) ==
  /\ LET hit == {p \in profiles :
                   p.user_id = key /\ profiles_select(uid, p) /\ profiles_update(uid, p)}
     IN  IF hit = {}
           THEN /\ profiles' = profiles
                /\ last' = Result("update", "profiles", uid, "ok", 0, key)
           ELSE LET old == CHOOSE p \in hit : TRUE
                    res == profiles_update_result(uid, old, new)
                IN  /\ profiles' = IF res = "ok"
                                     THEN (profiles \ {old}) \cup {new}
                                     ELSE profiles
                    /\ last' = Result("update", "profiles", uid, res, IF res = "ok" THEN 1 ELSE 0, key)
  /\ UNCHANGED <<users, courses, students, user_roles>>

DeleteProfiles(uid, key) ==
  /\ LET hit == {p \in profiles :
                   p.user_id = key /\ profiles_select(uid, p) /\ profiles_delete(uid, p)}
     IN  /\ profiles' = profiles \ hit
         /\ last' = Result("delete", "profiles", uid, "ok", Cardinality(hit), key)
  /\ UNCHANGED <<users, courses, students, user_roles>>

\* SELECT * FROM profiles as uid
profiles_visible(uid) == {p \in profiles : profiles_select(uid, p)}

SelectProfiles(uid) ==
  /\ last' = Result("select", "profiles", uid, "ok", Cardinality(profiles_visible(uid)), NULL)
  /\ UNCHANGED db

(***************************************************************************)
(* Identities (auth.users) and the provisioning trigger                    *)
(***************************************************************************)
\* raw_user_meta_data ->> 'username' of the new auth.users row: NULL when
\* the signup carried no username
SignupUsernames == Usernames \cup {NULL, LongText}

\* An INSERT can also end with an error that no constraint of the schema
\* raises (57014 query_canceled by statement_timeout, 53100 disk_full ...):
\* fault names the statement of the trigger that such an error hits.
Faults == {"none", "profiles", "user_roles"}

\* the writes kept although an error was raised
TxOutcome_kept(res, before, after) == after

\* An error aborts the transaction: every write made in it is undone
\* (handle_new_user has no EXCEPTION block that would catch one).
TxOutcome(res, before, after) == IF res = "ok" THEN after ELSE before

\* handle_new_user without its second INSERT
handle_new_user_norole(NEWROW, fault, auth_users) ==
  LET prow == [user_id |-> NEWROW.id, username |-> NEWROW.username]
      pres == IF fault = "profiles" THEN "57014"
              ELSE profiles_constraints(profiles, prow, auth_users)
  IN  IF pres # "ok"
        THEN [res |-> pres, at |-> "profiles",
              profiles |-> profiles, user_roles |-> user_roles]
      ELSE [res |-> "ok", at |-> "auth.users",
            profiles |-> profiles \cup {prow}, user_roles |-> user_roles]

\* handle_new_user giving the admin role to an identity that signs up while
\* no identity is admin
handle_new_user_firstadmin(NEWROW, fault, auth_users) ==
  LET prow == [user_id |-> NEWROW.id, username |-> NEWROW.username]
      pres == IF fault = "profiles" THEN "57014"
              ELSE profiles_constraints(profiles, prow, auth_users)
      rrow == [user_id |-> NEWROW.id,
               role |-> IF \E r \in user_roles : r.role = "admin" THEN "student" ELSE "admin"]
      rres == IF fault = "user_roles" THEN "57014"
              ELSE user_roles_constraints(user_roles, rrow, auth_users)
  IN  IF pres # "ok"
        THEN [res |-> pres, at |-> "profiles",
              profiles |-> profiles, user_roles |-> user_roles]
      ELSE IF rres # "ok"
        THEN [res |-> rres, at |-> "user_roles",
              profiles |-> profiles \cup {prow}, user_roles |-> user_roles]
      ELSE [res |-> "ok", at |-> "auth.users",
            profiles |-> profiles \cup {prow}, user_roles |-> user_roles \cup {rrow}]

\* public.handle_new_user, run as the function's owner (SECURITY DEFINER, so
\* no policy applies), AFTER INSERT of NEWROW: auth_users already holds NEWROW.id.
\* The result is the SQLSTATE, the relation whose INSERT raised it and the
\* two tables as the function left them.
handle_new_user(NEWROW, fault, auth_users) ==
  LET prow == [user_id |-> NEWROW.id, username |-> NEWROW.username]
      pres == IF fault = "profiles" THEN "57014"
              ELSE profiles_constraints(profiles, prow, auth_users)
      profiles1 == profiles \cup {prow}
      rrow == [user_id |-> NEWROW.id, role |-> "student"]
      rres == IF fault = "user_roles" THEN "57014"
              ELSE user_roles_constraints(user_roles, rrow, auth_users)
  IN  IF pres # "ok"
        THEN [res |-> pres, at |-> "profiles",
              profiles |-> profiles, user_roles |-> user_roles]
      ELSE IF rres # "ok"
        THEN [res |-> rres, at |-> "user_roles",
              profiles |-> profiles1, user_roles |-> user_roles]
      ELSE [res |-> "ok", at |-> "auth.users",
            profiles |-> profiles1, user_roles |-> user_roles \cup {rrow}]

\* INSERT INTO auth.users (id = u) by the auth service, firing
\* on_auth_user_created; id is the primary key of auth.users
Signup(u, username, fault) ==
  LET NEWROW == [id |-> u, username |-> username]
      ins == IF u \in users THEN "23505" ELSE "ok"
      trg == handle_new_user(NEWROW, fault, users \cup {u})
      res == IF ins # "ok" THEN ins ELSE trg.res
      after == IF ins # "ok" THEN <<users, profiles, user_roles>>
               ELSE <<users \cup {u}, trg.profiles, trg.user_roles>>
      final == TxOutcome(res, <<users, profiles, user_roles>>, after)
  IN  /\ users' = final[1]
      /\ profiles' = final[2]
      /\ user_roles' = final[3]
      /\ last' = Result("signup", IF ins # "ok" THEN "auth.users" ELSE trg.at, u, res,
                        IF res = "ok" THEN 1 ELSE 0, username)
      /\ UNCHANGED <<courses, students>>

\* the delete with students.user_id declared ON DELETE SET NULL
DeleteIdentity_setnull(u) ==
  /\ u \in users
  /\ users' = users \ {u}
  /\ students' = {IF s.user_id = u THEN [s EXCEPT !.user_id = NULL] ELSE s : s \in students}
  /\ user_roles' = {r \in user_roles : r.user_id # u}
  /\ profiles' = {p \in profiles : p.user_id # u}
  /\ last' = Result("delete", "auth.users", u, "ok", 1, NULL)
  /\ UNCHANGED courses

\* DELETE FROM auth.users WHERE id = u by the auth service: students.user_id,
\* user_roles.user_id and profiles.user_id are ON DELETE CASCADE
DeleteIdentity(u) ==
  /\ u \in users
  /\ users' = users \ {u}
  /\ students' = {s \in students : s.user_id # u}
  /\ user_roles' = {r \in user_roles : r.user_id # u}
  /\ profiles' = {p \in profiles : p.user_id # u}
  /\ last' = Result("delete", "auth.users", u, "ok", 1, NULL)
  /\ UNCHANGED courses

(***************************************************************************)
(* Statements of sessions that run at the same time                        *)
(***************************************************************************)
\* the writes w of session t that are not committed yet have no effect on
\* what is committed
Written(t, w) ==
  /\ txs' = [txs EXCEPT ![t] = w]
  /\ UNCHANGED <<db, last, clock, stamps, ui>>

\* the statement of session t raises: its writes are undone
Aborted(t, result) ==
  /\ txs' = [txs EXCEPT ![t] = Idle]
  /\ last' = result
  /\ UNCHANGED <<db, clock, ui>>
  /\ Timestamps(NoStamps)

\* the waits of tables whose columns are declared without REFERENCES: a
\* write waits for a row or a unique key only
Waits_norefs(t, w) ==
  \E u \in Sessions \ {t} :
    LET x == txs[u]
        xc == x.adds.courses \cup x.dels.courses
        xs == x.adds.students \cup x.dels.students
    IN  /\ x.op # "none"
        /\ \/ \E a \in w.adds.courses \cup w.dels.courses, b \in xc : a.id = b.id
           \/ \E a \in w.adds.courses, b \in xc : a.course_code = b.course_code
           \/ \E a \in w.adds.students \cup w.dels.students, b \in xs : a.id = b.id
           \/ \E a \in w.adds.students, b \in xs : a.email = b.email

\* the waits of tables whose columns are declared without UNIQUE: a write
\* waits for a row or a referenced key only
Waits_nokeys(t, w) ==
  \E u \in Sessions \ {t} :
    LET x == txs[u]
        xc == x.adds.courses \cup x.dels.courses
        xs == x.adds.students \cup x.dels.students
    IN  /\ x.op # "none"
        /\ \/ \E a \in w.adds.courses \cup w.dels.courses, b \in xc : a.id = b.id
           \/ \E a \in w.adds.students \cup w.dels.students, b \in xs : a.id = b.id
           \/ /\ x.op = "delete" /\ x.tbl = "courses"
              /\ \E a \in w.adds.students, b \in x.dels.courses : a.course_id = b.id
           \/ /\ w.op = "delete" /\ w.tbl = "courses"
              /\ \E a \in x.adds.students, b \in w.dels.courses : a.course_id = b.id

\* The writes w that session t is about to make have to wait for another
\* session: that one has written, and not committed, a version of a row w
\* writes (row lock), a row with a unique key w adds (unique index: course
\* code, student email, profile user_id, role pair, auth.users id), a
\* students row that refers to the course w deletes, or the delete of the
\* course a students row of w refers to (the lock the foreign key check
\* takes on the referenced row).
Waits(t, w) ==
  \E u \in Sessions \ {t} :
    LET x == txs[u]
        xc == x.adds.courses \cup x.dels.courses
        xs == x.adds.students \cup x.dels.students
        xp == x.adds.profiles \cup x.dels.profiles
        xr == x.adds.user_roles \cup x.dels.user_roles
    IN  /\ x.op # "none"
        /\ \/ w.adds.users \cap x.adds.users # {}
           \/ \E a \in w.adds.courses \cup w.dels.courses, b \in xc : a.id = b.id
           \/ \E a \in w.adds.courses, b \in xc : a.course_code = b.course_code
           \/ \E a \in w.adds.students \cup w.dels.students, b \in xs : a.id = b.id
           \/ \E a \in w.adds.students, b \in xs : a.email = b.email
           \/ \E a \in w.adds.profiles, b \in xp : a.user_id = b.user_id
           \/ \E a \in w.adds.user_roles, b \in xr : a = b
           \/ /\ x.op = "delete" /\ x.tbl = "courses"
              /\ \E a \in w.adds.students, b \in x.dels.courses : a.course_id = b.id
           \/ /\ w.op = "delete" /\ w.tbl = "courses"
              /\ \E a \in x.adds.students, b \in w.dels.courses : a.course_id = b.id

\* the ids of a table that are taken, by committed rows or by rows in flight
Taken(tbl) ==
  {r.id : r \in Rows(tbl)} \cup UNION {{r.id : r \in txs[u].adds[tbl]} : u \in Sessions}

\* INSERT INTO courses by session t
ExecInsertCourses(t, uid, new) ==
  /\ txs[t] = Idle
  /\ Taken("courses") # CourseIds
  /\ LET id == FreshId("c", MaxCourses, Taken("courses"))
         res == courses_insert_result(uid, new)
         w == Tx("insert", "courses", uid, NULL, "commit", "none",
                 [NoRows EXCEPT !.courses = {[id |-> id] @@ new}], NoRows)
     IN  /\ ~Waits(t, w)
         /\ IF res = "ok" THEN Written(t, w)
            ELSE Aborted(t, Result("insert", "courses", uid, res, 0, NULL))

\* UPDATE courses ... WHERE id = ... by session t
ExecUpdateCourses(t, uid, id, new) ==
  /\ txs[t] = Idle
  /\ LET hit == {c \in courses : c.id = id /\ courses_select(uid, c) /\ courses_update(uid, c)}
         old == CHOOSE c \in hit : TRUE
         w == Tx("update", "courses", uid, id, "commit", "none",
                 [NoRows EXCEPT !.courses = {[id |-> id] @@ new}],
                 [NoRows EXCEPT !.courses = hit])
     IN  IF hit = {}
           THEN Aborted(t, Result("update", "courses", uid, "ok", 0, id))
           ELSE /\ ~Waits(t, w)
                /\ LET res == courses_update_result(uid, old, new)
                   IN  IF res = "ok" THEN Written(t, w)
                       ELSE Aborted(t, Result("update", "courses", uid, res, 0, id))

\* DELETE FROM courses WHERE id = ... by session t: the referential action
\* SET NULL writes the students rows that refer to the course
ExecDeleteCourses(t, uid, id) ==
  /\ txs[t] = Idle
  /\ LET hit == {c \in courses : c.id = id /\ courses_select(uid, c) /\ courses_delete(uid, c)}
         refs == {s \in students : s.course_id = id}
         w == Tx("delete", "courses", uid, id, "commit", "none",
                 [NoRows EXCEPT !.students = {[s EXCEPT !.course_id = NULL] : s \in refs}],
                 [NoRows EXCEPT !.courses = hit, !.students = refs])
     IN  IF hit = {}
           THEN Aborted(t, Result("delete", "courses", uid, "ok", 0, id))
           ELSE ~Waits(t, w) /\ Written(t, w)

\* INSERT INTO students by session t
ExecInsertStudents(t, uid, new) ==
  /\ txs[t] = Idle
  /\ Taken("students") # StudentIds
  /\ LET id == FreshId("s", MaxStudents, Taken("students"))
         res == students_insert_result(uid, new)
         w == Tx("insert", "students", uid, NULL, "commit", "none",
                 [NoRows EXCEPT !.students = {[id |-> id] @@ new}], NoRows)
     IN  /\ ~Waits(t, w)
         /\ IF res = "ok" THEN Written(t, w)
            ELSE Aborted(t, Result("insert", "students", uid, res, 0, NULL))

\* UPDATE students ... WHERE id = ... by session t
ExecUpdateStudents(t, uid, id, new) ==
  /\ txs[t] = Idle
  /\ LET hit == {s \in students : s.id = id /\ students_select(uid, s) /\ students_update(uid, s)}
         old == CHOOSE s \in hit : TRUE
         w == Tx("update", "students", uid, id, "commit", "none",
                 [NoRows EXCEPT !.students = {[id |-> id] @@ new}],
                 [NoRows EXCEPT !.students = hit])
     IN  IF hit = {}
           THEN Aborted(t, Result("update", "students", uid, "ok", 0, id))
           ELSE /\ ~Waits(t, w)
                /\ LET res == students_update_result(uid, old, new)
                   IN  IF res = "ok" THEN Written(t, w)
                       ELSE Aborted(t, Result("update", "students", uid, res, 0, id))

\* INSERT INTO auth.users (id = u) by the auth service in session t; the
\* trigger on_auth_user_created runs next, in the same transaction
SignupInsertUser(t, u, username, fault) ==
  /\ txs[t] = Idle
  /\ LET w == Tx("signup", "auth.users", u, username, "profiles", fault,
                 [NoRows EXCEPT !.users = {u}], NoRows)
     IN  /\ ~Waits(t, w)
         /\ IF u \in users
              THEN Aborted(t, Result("signup", "auth.users", u, "23505", 0, username))
              ELSE Written(t, w)

\* handle_new_user, first statement: INSERT INTO public.profiles
TriggerInsertProfiles(t) ==
  /\ txs[t].op = "signup" /\ txs[t].pc = "profiles"
  /\ LET x == txs[t]
         prow == [user_id |-> x.by, username |-> x.val]
         w == [x EXCEPT !.pc = "user_roles", !.adds.profiles = @ \cup {prow}]
         res == IF x.fault = "profiles" THEN "57014"
                ELSE profiles_constraints(profiles \cup x.adds.profiles, prow,
                                          users \cup x.adds.users)
     IN  /\ ~Waits(t, w)
         /\ IF res = "ok" THEN Written(t, w)
            ELSE Aborted(t, Result("signup", "profiles", x.by, res, 0, x.val))

\* handle_new_user, second statement: INSERT INTO public.user_roles
TriggerInsertUserRoles(t) ==
  /\ txs[t].op = "signup" /\ txs[t].pc = "user_roles"
  /\ LET x == txs[t]
         rrow == [user_id |-> x.by, role |-> "student"]
         w == [x EXCEPT !.pc = "commit", !.adds.user_roles = @ \cup {rrow}]
         res == IF x.fault = "user_roles" THEN "57014"
                ELSE user_roles_constraints(user_roles \cup x.adds.user_roles, rrow,
                                            users \cup x.adds.users)
     IN  /\ ~Waits(t, w)
         /\ IF res = "ok" THEN Written(t, w)
            ELSE Aborted(t, Result("signup", "user_roles", x.by, res, 0, x.val))

\* COMMIT of the transaction of session t: its writes become the committed
\* rows
Commit(t) ==
  /\ txs[t].pc = "commit"
  /\ LET x == txs[t]
     IN  /\ users' = users \cup x.adds.users
         /\ courses' = (courses \ x.dels.courses) \cup x.adds.courses
         /\ students' = (students \ x.dels.students) \cup x.adds.students
         /\ user_roles' = (user_roles \ x.dels.user_roles) \cup x.adds.user_roles
         /\ profiles' = (profiles \ x.dels.profiles) \cup x.adds.profiles
         /\ last' = Result(x.op, x.tbl, x.by, "ok", 1, x.val)
  /\ txs' = [txs EXCEPT ![t] = Idle]
  /\ Timestamps(NoStamps)
  /\ UNCHANGED <<clock, ui>>

(***************************************************************************)
(* The resolvers called as functions                                       *)
(***************************************************************************)
BoolText(b) == IF b THEN "true" ELSE "false"

CallHasRole(_user_id, _role) ==
  /\ last' = Result("has_role", _role, _user_id, "ok", 0, BoolText(has_role(_user_id, _role)))
  /\ UNCHANGED db

CallGetUserStudentId(_user_id) ==
  /\ \E id \in get_user_student_id(_user_id) :
       last' = Result("get_user_student_id", "students", _user_id, "ok", 0, id)
  /\ UNCHANGED db

(***************************************************************************)
(* The Students and Courses pages (pages/Students.tsx, pages/Courses.tsx). *)
(* A handler, with the statement it awaits, is one action.                 *)
(***************************************************************************)
Pages == {"students", "courses"}

\* the signed-in identity uid opens a page: the component mounts with its
\* initial state
Visit(uid, page) ==
  /\ uid \in users
  /\ ui' = [NoPage EXCEPT !.page = page, !.user = uid]
  /\ UNCHANGED <<db, last, clock, stamps, txs>>

\* the rows the list of the page shows to its user
Listed ==
  IF ui.page = "courses" THEN {c.id : c \in {c \in courses : courses_select(ui.user, c)}}
  ELSE IF ui.page = "students" THEN {s.id : s \in students_visible(ui.user)}
  ELSE {}

\* handleOpenDialog(row?): target is NULL for "Add", the id of a listed row
\* for "Edit"
handleOpenDialog(target) ==
  /\ ui.page \in Pages /\ ~ui.isDialogOpen
  /\ target \in Listed \cup {NULL}
  /\ ui' = [ui EXCEPT !.formErrors = {}, !.editing = target, !.isDialogOpen = TRUE]
  /\ UNCHANGED <<db, last, clock, stamps, txs>>

\* what formData holds when the form is submitted
CourseNameTexts == {<<"A", "l", "g", "e", "b", "r", "a">>, <<"A", " ">>}
CourseCodeTexts == {<<"c", "s", "1", "0", "1">>, <<"C", "S", "1", "0", "1">>,
                    <<" ", "m", "a", "2", "0", "1">>}
CourseForms ==
  [course_name : CourseNameTexts, course_code : CourseCodeTexts, course_duration : Durations]

Digits == <<"0", "1", "2", "3", "4", "5", "6", "7", "8", "9">>
IsDigit(ch) == \E d \in DOMAIN Digits : Digits[d] = ch
DigitValue(ch) == (CHOOSE d \in DOMAIN Digits : Digits[d] = ch) - 1

\* the value of the digits t starts with, after the value acc of the digits
\* read so far
RECURSIVE LeadingDigits(_, _)
LeadingDigits(t, acc) ==
  IF t = <<>> \/ ~IsDigit(Head(t)) THEN acc
  ELSE LeadingDigits(Tail(t), 10 * acc + DigitValue(Head(t)))

\* parseInt(text): the integer the text starts with, after blanks and a
\* sign, as {n}; {} for NaN, when no digit is there
parseInt(text) ==
  LET t == trim(text)
      signed == t # <<>> /\ Head(t) \in {"-", "+"}
      body == IF signed THEN Tail(t) ELSE t
      n == LeadingDigits(body, 0)
  IN  IF body = <<>> \/ ~IsDigit(Head(body)) THEN {}
      ELSE IF signed /\ Head(t) = "-" THEN {0 - n} ELSE {n}

\* onChange of the course_duration input: parseInt(e.target.value) || 1
course_duration_onChange(value) ==
  LET r == parseInt(value)
  IN  IF r = {} \/ r = {0} THEN 1 ELSE CHOOSE n \in r : TRUE

\* what is typed into the duration input
DurationTexts ==
  {<<"0">>, <<"1", "2", "1">>, <<"-", "3">>, <<>>, <<"1", "2", "0", ".", "9">>}

\* courseSchema.parse(formData): the field errors validateForm sets
courseSchema(formData) ==
  {FieldError("course_name", "Course name must be at least 2 characters") :
     x \in {f \in {formData} : Len(trim(f.course_name)) < 2}}
  \cup {FieldError("course_name", "String must contain at most 255 character(s)") :
     x \in {f \in {formData} : Len(trim(f.course_name)) > 255}}
  \cup {FieldError("course_code", "Course code must be at least 2 characters") :
     x \in {f \in {formData} : Len(trim(f.course_code)) < 2}}
  \cup {FieldError("course_code", "String must contain at most 50 character(s)") :
     x \in {f \in {formData} : Len(trim(f.course_code)) > 50}}
  \cup {FieldError("course_duration", "Duration must be at least 1 month") :
     x \in {f \in {formData} : f.course_duration < 1}}
  \cup {FieldError("course_duration", "Number must be less than or equal to 120") :
     x \in {f \in {formData} : f.course_duration > 120}}

\* a payload that carries the code as it was typed, trimmed
CoursePayloadOf_astyped(formData) ==
  [course_name |-> Str(trim(formData.course_name)),
   course_code |-> Str(trim(formData.course_code)),
   course_duration |-> formData.course_duration]

\* the payload handleSubmit builds
CoursePayloadOf(formData) ==
  [course_name |-> Str(trim(formData.course_name)),
   course_code |-> Str(toUpperCase(trim(formData.course_code))),
   course_duration |-> formData.course_duration]

\* The page after the awaited statement of Courses.handleSubmit returned l.
\* An error of the update is thrown; an error of the insert whose message
\* includes 'duplicate' or 'unique' marks the code field and returns, any
\* other is thrown; the catch block shows the message of what was thrown.
CoursesSubmitted(l) ==
  LET message == ErrorMessage(l.res, l.tbl)
  IN  IF l.res = "ok"
        THEN [ui EXCEPT !.formErrors = {},
                        !.toast = ToastSuccess(IF ui.editing # NULL
                                                 THEN "Course updated successfully"
                                                 ELSE "Course added successfully"),
                        !.isDialogOpen = FALSE]
      ELSE IF ui.editing = NULL /\ (includes(message, "duplicate") \/ includes(message, "unique"))
        THEN [ui EXCEPT !.formErrors = {FieldError("course_code", "This course code is already in use")},
                        !.toast = ToastError(<<"A course with this code already exists">>)]
      ELSE [ui EXCEPT !.formErrors = {}, !.toast = ToastError(message)]

\* Courses.handleSubmit
CoursesHandleSubmit(formData) ==
  /\ ui.page = "courses" /\ ui.isDialogOpen
  /\ IF courseSchema(formData) # {}
       THEN /\ ui' = [ui EXCEPT !.formErrors = courseSchema(formData)]
            /\ UNCHANGED <<db, last, clock, stamps, txs>>
       ELSE /\ IF ui.editing # NULL
                 THEN UpdateCourses(ui.user, ui.editing, CoursePayloadOf(formData))
                 ELSE InsertCourses(ui.user, CoursePayloadOf(formData))
            /\ Timestamps(NoStamps)
            /\ ui' = CoursesSubmitted(last')
            /\ UNCHANGED <<clock, txs>>

\* the page after the awaited delete of handleDelete returned l
Deleted(l, text) ==
  IF l.res = "ok" THEN [ui EXCEPT !.toast = ToastSuccess(text)]
  ELSE [ui EXCEPT !.toast = ToastError(ErrorMessage(l.res, l.tbl))]

\* Courses.handleDelete(id), from the delete button of a listed row
CoursesHandleDelete(id) ==
  /\ ui.page = "courses" /\ ~ui.isDialogOpen
  /\ id \in Listed
  /\ DeleteCourses(ui.user, id)
  /\ Timestamps(NoStamps)
  /\ ui' = Deleted(last', "Course deleted successfully")
  /\ UNCHANGED <<clock, txs>>

StudentNameTexts == {<<"A", "n", "n">>, <<" ", "A">>}
EmailTexts == {<<"a", "@", "x", ".", "i", "o">>, <<" ", "b", "@", "x", ".", "i", "o", " ">>,
               <<"a", "@", "x">>}
\* formData.course_id is '' when no course is selected
StudentForms == [name : StudentNameTexts, email : EmailTexts, course_id : {""} \cup CourseIds]

\* z.string().email(): one @ after a local part, no blank, and a domain
\* whose last label has two characters or more
IsEmail(t) ==
  \E at \in DOMAIN t :
    /\ t[at] = "@" /\ at > 1
    /\ \A i \in DOMAIN t : (t[i] = "@" => i = at) /\ t[i] # " "
    /\ \E dot \in (at + 2)..(Len(t) - 2) :
         t[dot] = "." /\ \A i \in (dot + 1)..Len(t) : t[i] # "."

\* studentSchema.parse(formData): the field errors validateForm sets
studentSchema(formData) ==
  {FieldError("name", "Name must be at least 2 characters") :
     x \in {f \in {formData} : Len(trim(f.name)) < 2}}
  \cup {FieldError("name", "String must contain at most 255 character(s)") :
     x \in {f \in {formData} : Len(trim(f.name)) > 255}}
  \cup {FieldError("email", "Invalid email address") :
     x \in {f \in {formData} : ~IsEmail(trim(f.email))}}
  \cup {FieldError("email", "String must contain at most 255 character(s)") :
     x \in {f \in {formData} : Len(trim(f.email)) > 255}}

\* the payload handleSubmit builds.  It names no user_id: an INSERT stores
\* NULL, an UPDATE keeps the owner the row has.
StudentPayloadOf(formData, owner) ==
  [name |-> Str(trim(formData.name)),
   email |-> Str(trim(formData.email)),
   course_id |-> IF formData.course_id = "" THEN NULL ELSE formData.course_id,
   user_id |-> owner]

\* The page after the awaited statement of Students.handleSubmit returned l.
\* An error of the update is thrown; an error of the insert whose message
\* includes 'duplicate' marks the email field and returns, any other is
\* thrown; the catch block shows the message of what was thrown.
StudentsSubmitted(l) ==
  LET message == ErrorMessage(l.res, l.tbl)
  IN  IF l.res = "ok"
        THEN [ui EXCEPT !.formErrors = {},
                        !.toast = ToastSuccess(IF ui.editing # NULL
                                                 THEN "Student updated successfully"
                                                 ELSE "Student added successfully"),
                        !.isDialogOpen = FALSE]
      ELSE IF ui.editing = NULL /\ includes(message, "duplicate")
        THEN [ui EXCEPT !.formErrors = {FieldError("email", "This email is already registered")},
                        !.toast = ToastError(<<"A student with this email already exists">>)]
      ELSE [ui EXCEPT !.formErrors = {}, !.toast = ToastError(message)]

\* Students.handleSubmit
StudentsHandleSubmit(formData) ==
  /\ ui.page = "students" /\ ui.isDialogOpen
  /\ IF studentSchema(formData) # {}
       THEN /\ ui' = [ui EXCEPT !.formErrors = studentSchema(formData)]
            /\ UNCHANGED <<db, last, clock, stamps, txs>>
       ELSE /\ IF ui.editing # NULL
                 THEN LET row == {s \in students : s.id = ui.editing}
                          owner == IF row = {} THEN NULL ELSE (CHOOSE s \in row : TRUE).user_id
                      IN  UpdateStudents(ui.user, ui.editing, StudentPayloadOf(formData, owner))
                 ELSE InsertStudents(ui.user, StudentPayloadOf(formData, NULL))
            /\ Timestamps(NoStamps)
            /\ ui' = StudentsSubmitted(last')
            /\ UNCHANGED <<clock, txs>>

\* Students.handleDelete(id), from the delete button of a listed row
StudentsHandleDelete(id) ==
  /\ ui.page = "students" /\ ~ui.isDialogOpen
  /\ id \in Listed
  /\ DeleteStudents(ui.user, id)
  /\ Timestamps(NoStamps)
  /\ ui' = Deleted(last', "Student deleted successfully")
  /\ UNCHANGED <<clock, txs>>

(***************************************************************************)
(* The Dashboard (pages/Students.tsx, function Dashboard).  useAuth hands  *)
(* it user and isAdmin; its effect runs after the first render and after   *)
(* every render in which one of the two has changed.  fetchAdminStats and  *)
(* fetchStudentProfile are async: each runs up to its await in the step    *)
(* that calls it, and the rest when its responses have arrived, in any     *)
(* order with the other requests in flight.                                *)
(***************************************************************************)
\* a request in flight: kind is the function that awaits it, user the
\* identity it was sent as, studentsRes and coursesRes the counts that have
\* arrived ({} before)
Fetch(n, kind, user) ==
  [n |-> n, kind |-> kind, user |-> user, studentsRes |-> {}, coursesRes |-> {}]

FreeFetch(u) == Min({n \in 1..MaxFetches : \A f \in u.fetches : f.n # n})

\* useEffect(() => { if (isAdmin) fetchAdminStats(); else fetchStudentProfile(); }),
\* each up to its await: setLoading(true) and the requests sent
DashboardEffect(u) ==
  IF u.isAdmin
    THEN [u EXCEPT !.loading = TRUE,
                   !.fetches = @ \cup {Fetch(FreeFetch(u), "fetchAdminStats", u.user)}]
  ELSE IF u.user = NULL THEN u
  ELSE [u EXCEPT !.loading = TRUE,
                 !.fetches = @ \cup {Fetch(FreeFetch(u), "fetchStudentProfile", u.user)}]

\* the values useAuth can hand out: nobody signed in, an identity whose role
\* has not arrived yet, or an identity with its role
AuthValues(user, isAdmin) ==
  /\ user \in users \cup {NULL}
  /\ isAdmin \in BOOLEAN
  /\ isAdmin => (user # NULL /\ has_role(user, "admin"))

\* the Dashboard mounts: first render and first run of the effect
DashboardMount(user, isAdmin) ==
  /\ AuthValues(user, isAdmin)
  /\ ui' = DashboardEffect([NoPage EXCEPT !.page = "dashboard", !.user = user,
                                          !.isAdmin = isAdmin])
  /\ UNCHANGED <<db, last, clock, stamps, txs>>

\* useAuth hands out new values (sign-in, the role arriving, sign-out): the
\* Dashboard renders again and the effect runs, as one of its dependencies
\* has changed
useAuthChanged(user, isAdmin) ==
  /\ ui.page = "dashboard"
  /\ AuthValues(user, isAdmin)
  /\ <<user, isAdmin>> # <<ui.user, ui.isAdmin>>
  /\ ui.user # NULL => user \in {ui.user, NULL}
  /\ (isAdmin \/ user # NULL) => Cardinality(ui.fetches) < MaxFetches
  /\ ui' = DashboardEffect([ui EXCEPT !.user = user, !.isAdmin = isAdmin])
  /\ UNCHANGED <<db, last, clock, stamps, txs>>

\* supabase.from('students').select('id', { count: 'exact' }) of a
\* fetchAdminStats is answered
StudentsCountArrives(n) ==
  /\ ui.page = "dashboard"
  /\ \E f \in ui.fetches :
       /\ f.n = n /\ f.kind = "fetchAdminStats" /\ f.studentsRes = {}
       /\ SelectStudents(f.user)
       /\ ui' = [ui EXCEPT !.fetches = (@ \ {f})
                   \cup {[f EXCEPT !.studentsRes = {Cardinality(students_visible(f.user))}]}]
  /\ UNCHANGED <<clock, stamps, txs>>

\* supabase.from('courses').select('id', { count: 'exact' }) is answered
CoursesCountArrives(n) ==
  /\ ui.page = "dashboard"
  /\ \E f \in ui.fetches :
       /\ f.n = n /\ f.kind = "fetchAdminStats" /\ f.coursesRes = {}
       /\ SelectCourses(f.user)
       /\ ui' = [ui EXCEPT !.fetches = (@ \ {f})
                   \cup {[f EXCEPT !.coursesRes = {Cardinality(courses_visible(f.user))}]}]
  /\ UNCHANGED <<clock, stamps, txs>>

\* Math.round(totalStudents / totalCourses * 10), the average in tenths
AverageTenths(totalStudents, totalCourses) ==
  IF totalCourses > 0 THEN (20 * totalStudents + totalCourses) \div (2 * totalCourses) ELSE 0

\* fetchAdminStats after its await: Promise.all has both answers
fetchAdminStats_resumes(n) ==
  /\ ui.page = "dashboard"
  /\ \E f \in ui.fetches :
       /\ f.n = n /\ f.kind = "fetchAdminStats"
       /\ \E totalStudents \in f.studentsRes, totalCourses \in f.coursesRes :
            ui' = [ui EXCEPT !.stats = Stats(totalStudents, totalCourses,
                                             AverageTenths(totalStudents, totalCourses)),
                             !.loading = FALSE,
                             !.fetches = @ \ {f}]
  /\ UNCHANGED <<db, last, clock, stamps, txs>>

\* the row .eq('user_id', user.id).maybeSingle() hands back, with the course
\* it names: no data when no row or more than one row matches
StudentProfileData(user) ==
  LET rows == {s \in students_visible(user) : s.user_id = user}
  IN  IF Cardinality(rows) # 1 THEN {}
      ELSE {[id |-> s.id, name |-> s.name, email |-> s.email,
             course |-> IF \E c \in courses_visible(user) : c.id = s.course_id
                          THEN s.course_id ELSE NULL] : s \in rows}

\* fetchStudentProfile after its await: the request is answered
fetchStudentProfile_resumes(n) ==
  /\ ui.page = "dashboard"
  /\ \E f \in ui.fetches :
       /\ f.n = n /\ f.kind = "fetchStudentProfile"
       /\ SelectStudents(f.user)
       /\ LET data == StudentProfileData(f.user)
          IN  ui' = [ui EXCEPT !.studentProfile = IF data = {} THEN @ ELSE CHOOSE d \in data : TRUE,
                               !.loading = FALSE,
                               !.fetches = @ \ {f}]
  /\ UNCHANGED <<clock, stamps, txs>>

(***************************************************************************)
(* Specifications.  Next is the whole system.  The tables split into       *)
(* families that do not read each other: no statement on courses or        *)
(* students writes users, user_roles or profiles, and no statement on      *)
(* those reads courses or students.  AuthNext, CoursesNext and             *)
(* StudentsNext each run one family together with the identity and role    *)
(* changes its policies read.                                              *)
(***************************************************************************)
CoursesOps ==
  \/ \E uid \in Requesters, new \in CoursePayloads : InsertCourses(uid, new) /\ ApiCall(NoStamps)
  \/ \E uid \in Requesters, id \in CourseIds, new \in CoursePayloads : UpdateCourses(uid, id, new) /\ ApiCall(NoStamps)
  \/ \E uid \in Requesters, id \in CourseIds : DeleteCourses(uid, id) /\ ApiCall(NoStamps)

StudentsOps(payloads) ==
  \/ \E uid \in Requesters, new \in payloads : InsertStudents(uid, new) /\ ApiCall(NoStamps)
  \/ \E uid \in Requesters, id \in StudentIds, new \in payloads : UpdateStudents(uid, id, new) /\ ApiCall(NoStamps)
  \/ \E uid \in Requesters, id \in StudentIds : DeleteStudents(uid, id) /\ ApiCall(NoStamps)
  \/ \E uid \in Requesters : SelectStudents(uid) /\ ApiCall(NoStamps)
  \/ \E u \in Identities \cup {NULL} : CallGetUserStudentId(u) /\ ApiCall(NoStamps)

UserRolesOps(payloads) ==
  \/ \E uid \in Requesters, new \in payloads : InsertUserRoles(uid, new) /\ ApiCall(NoStamps)
  \/ \E uid \in Requesters, key \in payloads, new \in payloads : UpdateUserRoles(uid, key, new) /\ ApiCall(NoStamps)
  \/ \E uid \in Requesters, key \in payloads : DeleteUserRoles(uid, key) /\ ApiCall(NoStamps)

ProfilesOps ==
  \/ \E uid \in Requesters, new \in ProfilePayloads : InsertProfiles(uid, new) /\ ApiCall(NoStamps)
  \/ \E uid \in Requesters, key \in Identities, new \in ProfilePayloads : UpdateProfiles(uid, key, new) /\ ApiCall(NoStamps)
  \/ \E uid \in Requesters, key \in Identities : DeleteProfiles(uid, key) /\ ApiCall(NoStamps)

IdentityOps(usernames, faults) ==
  \/ \E u \in Identities, n \in usernames, f \in faults : Signup(u, n, f) /\ ApiCall(NoStamps)
  \/ \E u \in Identities : DeleteIdentity(u) /\ ApiCall(NoStamps)

\* a SELECT of a whole table
Reads ==
  \/ \E uid \in Requesters : SelectCourses(uid) /\ ApiCall(NoStamps)
  \/ \E uid \in Requesters : SelectStudents(uid) /\ ApiCall(NoStamps)
  \/ \E uid \in Requesters : SelectUserRoles(uid) /\ ApiCall(NoStamps)
  \/ \E uid \in Requesters : SelectProfiles(uid) /\ ApiCall(NoStamps)

Next ==
  \/ CoursesOps
  \/ StudentsOps(StudentPayloads)
  \/ UserRolesOps(RolePayloads)
  \/ ProfilesOps
  \/ IdentityOps(SignupUsernames, Faults)
  \/ \E u \in Identities \cup {NULL}, r \in app_role : CallHasRole(u, r) /\ ApiCall(NoStamps)
  \/ Reads

Spec == Init /\ [][Next]_vars

\* identities, roles and profiles
AuthNext ==
  \/ UserRolesOps(RolePayloads)
  \/ ProfilesOps
  \/ IdentityOps(SignupUsernames, Faults)
  \/ \E u \in Identities \cup {NULL}, r \in app_role : CallHasRole(u, r) /\ ApiCall(NoStamps)

SpecAuth == Init /\ [][AuthNext]_vars

\* the admin role rows are what the policies of courses and students read
AdminRolePayloads == {p \in RolePayloads : p.role = "admin"}

\* courses, under every change of who is admin
CoursesNext ==
  \/ CoursesOps
  \/ UserRolesOps(AdminRolePayloads)
  \/ IdentityOps({NULL}, {"none"})

SpecCourses == Init /\ [][CoursesNext]_vars

\* students (with no course to refer to), under every change of who is admin
StudentPayloadsNoCourse == {p \in StudentPayloads : p.course_id = NULL}

StudentsNext ==
  \/ StudentsOps(StudentPayloadsNoCourse)
  \/ UserRolesOps(AdminRolePayloads)
  \/ IdentityOps({NULL}, {"none"})

SpecStudents == Init /\ [][StudentsNext]_vars

\* courses and the students enrolled in them, with the first admin and an
\* identity without role as requesters, as time passes: every student is
\* inserted with a course, so that a students row without one has lost it
\* to the delete of the course
EnrollCoursePayloads ==
  {p \in CoursePayloads : p.course_name \in CourseNames /\ p.course_code \in Codes}
StudentPayloadsEnrolled ==
  {p \in StudentPayloads : p.course_id # NULL /\ p.user_id = NULL}

EnrollNext ==
  \/ \E uid \in Requesters, new \in EnrollCoursePayloads : InsertCourses(uid, new) /\ ApiCall(NoStamps)
  \/ \E uid \in Requesters, id \in CourseIds : DeleteCourses(uid, id) /\ ApiCall(NoStamps)
  \/ \E uid \in Requesters, new \in StudentPayloadsEnrolled : InsertStudents(uid, new) /\ ApiCall(NoStamps)
  \/ \E uid \in Requesters, id \in StudentIds : DeleteStudents(uid, id) /\ ApiCall(NoStamps)
  \/ Tick

SpecEnroll == Init /\ [][EnrollNext]_vars

\* the statements that write timestamp columns, sent by the first admin as
\* time passes, on one row of each table: an UPDATE carries a created_at
\* ahead of the clock or none, and the earliest updated_at or none
TimeStampPayloads == [created_at : {{}, {MaxClock}}, updated_at : {{}, {0}}]
TimeCoursePayloads ==
  [course_name : CourseNames \cup {"Logic"}, course_code : {"CS101"}, course_duration : Durations]
TimeStudentPayloads ==
  {p \in StudentPayloads : p.email = "a@x.io" /\ p.course_id = NULL /\ p.user_id = NULL}
TimeProfilePayloads == {p \in ProfilePayloads : p.user_id = FirstAdmin}

TimeNext ==
  \/ \E new \in TimeCoursePayloads :
       InsertCourses(FirstAdmin, new) /\ ApiCall(NoStamps)
  \/ \E id \in CourseIds, new \in TimeCoursePayloads, ts \in TimeStampPayloads :
       UpdateCourses(FirstAdmin, id, new) /\ ApiCall(ts)
  \/ \E new \in TimeStudentPayloads :
       InsertStudents(FirstAdmin, new) /\ ApiCall(NoStamps)
  \/ \E id \in StudentIds, new \in TimeStudentPayloads, ts \in TimeStampPayloads :
       UpdateStudents(FirstAdmin, id, new) /\ ApiCall(ts)
  \/ \E new \in TimeProfilePayloads, ts \in TimeStampPayloads :
       UpdateProfiles(FirstAdmin, FirstAdmin, new) /\ ApiCall(ts)
  \/ Tick

SpecTime == Init /\ [][TimeNext]_vars

\* the Courses page, used by the first admin and by identities that signed
\* up, next to INSERTs of a course sent to the API with the code as typed
DirectCoursePayloads ==
  [course_name : CourseNames, course_code : {Str(t) : t \in CourseCodeTexts},
   course_duration : Durations]

CourseFormNext ==
  \/ \E u \in Identities : Signup(u, NULL, "none") /\ ApiCall(NoStamps)
  \/ \E uid \in Requesters : Visit(uid, "courses")
  \/ \E target \in CourseIds \cup {NULL} : handleOpenDialog(target)
  \/ \E formData \in CourseForms : CoursesHandleSubmit(formData)
  \/ \E id \in CourseIds : CoursesHandleDelete(id)
  \/ \E uid \in Requesters, new \in DirectCoursePayloads : InsertCourses(uid, new) /\ ApiCall(NoStamps)

SpecCourseForm == Init /\ [][CourseFormNext]_vars

\* the Students page (no course to select), used by the first admin and by
\* identities that signed up, next to INSERTs, sent to the API by an admin,
\* of the students row of an identity
NoCourseForms == {f \in StudentForms : f.course_id = ""}
OwnedStudentPayloads ==
  {p \in StudentPayloads : p.course_id = NULL /\ p.user_id # NULL}

StudentFormNext ==
  \/ \E u \in Identities : Signup(u, NULL, "none") /\ ApiCall(NoStamps)
  \/ \E uid \in Requesters : Visit(uid, "students")
  \/ \E target \in StudentIds \cup {NULL} : handleOpenDialog(target)
  \/ \E formData \in NoCourseForms : StudentsHandleSubmit(formData)
  \/ \E id \in StudentIds : StudentsHandleDelete(id)
  \/ \E uid \in Requesters, new \in OwnedStudentPayloads : InsertStudents(uid, new) /\ ApiCall(NoStamps)

SpecStudentForm == Init /\ [][StudentFormNext]_vars

\* both pages, with forms that pass validation
ValidCourseForms == {f \in CourseForms : courseSchema(f) = {}}
ValidStudentForms == {f \in NoCourseForms : studentSchema(f) = {}}

FormsNext ==
  \/ \E u \in Identities : Signup(u, NULL, "none") /\ ApiCall(NoStamps)
  \/ \E uid \in Requesters, page \in Pages : Visit(uid, page)
  \/ \E target \in CourseIds \cup StudentIds \cup {NULL} : handleOpenDialog(target)
  \/ \E formData \in ValidCourseForms : CoursesHandleSubmit(formData)
  \/ \E id \in CourseIds : CoursesHandleDelete(id)
  \/ \E formData \in ValidStudentForms : StudentsHandleSubmit(formData)
  \/ \E id \in StudentIds : StudentsHandleDelete(id)
  \/ \E uid \in Requesters, new \in OwnedStudentPayloads : InsertStudents(uid, new) /\ ApiCall(NoStamps)

SpecForms == Init /\ [][FormsNext]_vars

\* every INSERT, UPDATE and DELETE of the four tables, on one course and one
\* student, under every change of the identities and their roles
PolicyCoursePayloads == TimeCoursePayloads
PolicyStudentPayloads ==
  {p \in StudentPayloads : p.email = "a@x.io" /\ p.course_id = NULL /\ p.user_id = NULL}

PolicyNext ==
  \/ \E uid \in Requesters, new \in PolicyCoursePayloads : InsertCourses(uid, new) /\ ApiCall(NoStamps)
  \/ \E uid \in Requesters, id \in CourseIds, new \in PolicyCoursePayloads :
       UpdateCourses(uid, id, new) /\ ApiCall(NoStamps)
  \/ \E uid \in Requesters, id \in CourseIds : DeleteCourses(uid, id) /\ ApiCall(NoStamps)
  \/ \E uid \in Requesters, new \in PolicyStudentPayloads : InsertStudents(uid, new) /\ ApiCall(NoStamps)
  \/ \E uid \in Requesters, id \in StudentIds, new \in PolicyStudentPayloads :
       UpdateStudents(uid, id, new) /\ ApiCall(NoStamps)
  \/ \E uid \in Requesters, id \in StudentIds : DeleteStudents(uid, id) /\ ApiCall(NoStamps)
  \/ UserRolesOps(RolePayloads)
  \/ ProfilesOps
  \/ IdentityOps({NULL}, {"none"})

SpecPolicies == Init /\ [][PolicyNext]_vars

\* every write of the three admin-only tables and every read of the four
\* tables, by requesters that gain and lose the admin role, next to the
\* student role or after an admin deleted it, while the first admin owns
\* students rows or none
AccessStudentPayloads ==
  {p \in StudentPayloads : p.course_id = NULL /\ p.user_id \in {NULL, FirstAdmin}}

AccessNext ==
  \/ \E u \in Identities : Signup(u, NULL, "none") /\ ApiCall(NoStamps)
  \/ \E uid \in Requesters, new \in PolicyCoursePayloads : InsertCourses(uid, new) /\ ApiCall(NoStamps)
  \/ \E uid \in Requesters, id \in CourseIds, new \in PolicyCoursePayloads :
       UpdateCourses(uid, id, new) /\ ApiCall(NoStamps)
  \/ \E uid \in Requesters, id \in CourseIds : DeleteCourses(uid, id) /\ ApiCall(NoStamps)
  \/ \E uid \in Requesters, new \in AccessStudentPayloads : InsertStudents(uid, new) /\ ApiCall(NoStamps)
  \/ \E uid \in Requesters, id \in StudentIds, new \in AccessStudentPayloads :
       UpdateStudents(uid, id, new) /\ ApiCall(NoStamps)
  \/ \E uid \in Requesters, id \in StudentIds : DeleteStudents(uid, id) /\ ApiCall(NoStamps)
  \/ \E uid \in Requesters, new \in AdminRolePayloads : InsertUserRoles(uid, new) /\ ApiCall(NoStamps)
  \/ \E uid \in Requesters, key \in AdminRolePayloads, new \in AdminRolePayloads :
       UpdateUserRoles(uid, key, new) /\ ApiCall(NoStamps)
  \/ \E uid \in Requesters, key \in RolePayloads : DeleteUserRoles(uid, key) /\ ApiCall(NoStamps)
  \/ Reads

SpecAccess == Init /\ [][AccessNext]_vars

\* signups of the identities, each a transaction of its session, run at the
\* same time
SignupsNext ==
  \/ \E t \in Sessions, u \in Identities, n \in SignupUsernames, f \in Faults :
       SignupInsertUser(t, u, n, f)
  \/ \E t \in Sessions : TriggerInsertProfiles(t)
  \/ \E t \in Sessions : TriggerInsertUserRoles(t)
  \/ \E t \in Sessions : Commit(t)

SpecSignups == Init /\ [][SignupsNext]_vars

\* formData of the course form, the duration being what onChange made of
\* the text typed: the forms that pass courseSchema and, for one of them,
\* the forms that differ from it in one field
CourseInputs ==
  [course_name : CourseNameTexts,
   course_code : {<<"c", "s", "1", "0", "1">>, <<" ", "m", "a", "2", "0", "1">>, <<"c", " ">>},
   course_duration : {course_duration_onChange(t) : t \in DurationTexts}]
CourseInputForms ==
  LET good == {f \in CourseInputs : courseSchema(f) = {}}
      base == CHOOSE f \in good : f.course_duration = 1 /\ f.course_code[1] = "c"
  IN  good \cup {f \in CourseInputs :
                   Cardinality({k \in DOMAIN f : f[k] # base[k]}) = 1}

\* the Courses page as the only writer of courses, used by the first admin
\* and by identities that signed up, with every text the inputs can hold
CourseInputNext ==
  \/ \E u \in Identities : Signup(u, NULL, "none") /\ ApiCall(NoStamps)
  \/ \E uid \in Requesters : Visit(uid, "courses")
  \/ \E target \in CourseIds \cup {NULL} : handleOpenDialog(target)
  \/ \E formData \in CourseInputForms : CoursesHandleSubmit(formData)
  \/ \E id \in CourseIds : CoursesHandleDelete(id)

SpecCourseInput == Init /\ [][CourseInputNext]_vars

\* two sessions of the first admin that insert and delete courses and
\* insert and update students, each naming a course id, of a course that
\* exists or not
EnrollSessionsNext ==
  \/ \E t \in Sessions, new \in EnrollCoursePayloads : ExecInsertCourses(t, FirstAdmin, new)
  \/ \E t \in Sessions, id \in CourseIds : ExecDeleteCourses(t, FirstAdmin, id)
  \/ \E t \in Sessions, new \in StudentPayloadsEnrolled : ExecInsertStudents(t, FirstAdmin, new)
  \/ \E t \in Sessions, id \in StudentIds, new \in StudentPayloadsEnrolled :
       ExecUpdateStudents(t, FirstAdmin, id, new)
  \/ \E t \in Sessions : Commit(t)

SpecEnrollSessions == Init /\ [][EnrollSessionsNext]_vars

\* two sessions of the first admin that insert and update courses and
\* students, under the same codes and emails
UniqueSessionsNext ==
  \/ \E t \in Sessions, new \in EnrollCoursePayloads : ExecInsertCourses(t, FirstAdmin, new)
  \/ \E t \in Sessions, id \in CourseIds, new \in EnrollCoursePayloads :
       ExecUpdateCourses(t, FirstAdmin, id, new)
  \/ \E t \in Sessions, new \in StudentPayloadsNoCourse : ExecInsertStudents(t, FirstAdmin, new)
  \/ \E t \in Sessions, id \in StudentIds, new \in StudentPayloadsNoCourse :
       ExecUpdateStudents(t, FirstAdmin, id, new)
  \/ \E t \in Sessions : Commit(t)

SpecUniqueSessions == Init /\ [][UniqueSessionsNext]_vars

\* the Dashboard of the first admin, while the admin inserts a course and a
\* student
DashboardCoursePayloads == {p \in PolicyCoursePayloads : p.course_code = "CS101"}
DashboardStudentPayloads == {p \in AccessStudentPayloads : p.email = "a@x.io"}

DashboardNext ==
  \/ \E new \in DashboardCoursePayloads : InsertCourses(FirstAdmin, new) /\ ApiCall(NoStamps)
  \/ \E new \in DashboardStudentPayloads : InsertStudents(FirstAdmin, new) /\ ApiCall(NoStamps)
  \/ \E user \in Identities \cup {NULL}, isAdmin \in BOOLEAN : DashboardMount(user, isAdmin)
  \/ \E user \in Identities \cup {NULL}, isAdmin \in BOOLEAN : useAuthChanged(user, isAdmin)
  \/ \E n \in 1..MaxFetches : StudentsCountArrives(n)
  \/ \E n \in 1..MaxFetches : CoursesCountArrives(n)
  \/ \E n \in 1..MaxFetches : fetchAdminStats_resumes(n)
  \/ \E n \in 1..MaxFetches : fetchStudentProfile_resumes(n)

SpecDashboard == Init /\ [][DashboardNext]_vars

(***************************************************************************)
(* Properties                                                              *)
(***************************************************************************)
Writes == {"insert", "update", "delete"}

\* the identity holds an admin role row
HoldsAdminRow(I) == [user_id |-> I, role |-> "admin"] \in user_roles

\* the statement last' describes had no effect and, for an INSERT, raised
Refused(l) == l.out = 0 /\ (l.op = "insert" => l.res # "ok")

\* C1: every INSERT, UPDATE and DELETE on courses issued by an identity that
\* holds no admin role row is refused and leaves courses unchanged, whatever
\* the payload.
C1_NonAdminCourseWritesRefused ==
  [][(last'.tbl = "courses" /\ last'.op \in Writes /\ ~HoldsAdminRow(last'.by))
       => (courses' = courses /\ Refused(last'))]_vars

\* a non-admin identity that exists has just aimed a DELETE at an existing
\* course, which is still there
C1_Witness ==
  /\ last.tbl = "courses" /\ last.op = "delete"
  /\ last.by \in users /\ ~HoldsAdminRow(last.by)
  /\ \E c \in courses : c.id = last.val

\* C2: a SELECT on students by an identity that holds no admin role row
\* returns exactly the rows whose user_id is that identity, zero or one row,
\* never a row of another identity or an unowned row.
C2_NonAdminSelectsOwnSingleRow ==
  (last.op = "select" /\ last.tbl = "students" /\ ~HoldsAdminRow(last.by))
    => LET own == {s \in students : s.user_id = last.by}
       IN  /\ students_visible(last.by) = own
           /\ last.out = Cardinality(own)
           /\ last.out <= 1

\* C3: an identity that holds no admin role row never inserts, updates or
\* deletes a students row, the row it owns included.
C3_NonAdminStudentWritesRefused ==
  [][(last'.tbl = "students" /\ last'.op \in Writes /\ ~HoldsAdminRow(last'.by))
       => (students' = students /\ Refused(last'))]_vars

\* a non-admin identity has just aimed an UPDATE at the students row it owns
C3_Witness ==
  /\ last.tbl = "students" /\ last.op = "update"
  /\ last.by \in users /\ ~HoldsAdminRow(last.by)
  /\ \E s \in students : s.id = last.val /\ s.user_id = last.by

\* C4: an identity that holds no admin role row never inserts, updates or
\* deletes a user_roles row, rows about itself included; it cannot give
\* itself the admin role.
C4_NonAdminRoleWritesRefused ==
  [][(last'.tbl = "user_roles" /\ last'.op \in Writes /\ ~HoldsAdminRow(last'.by))
       => (user_roles' = user_roles /\ Refused(last'))]_vars

\* a provisioned non-admin has just tried to insert (itself, admin)
C4_Witness ==
  /\ last.tbl = "user_roles" /\ last.op = "insert"
  /\ last.by \in users /\ ~HoldsAdminRow(last.by)
  /\ last.val = RoleKeyText([user_id |-> last.by, role |-> "admin"])
  /\ last.res = "42501"

\* C5: has_role(I, r) returns true exactly when the row (I, r) is in
\* user_roles, false and no error when I is NULL or has no such row, and
\* the call changes no state.
C5_HasRoleExact ==
  [][last'.op = "has_role"
       => /\ last'.res = "ok"
          /\ last'.val = BoolText(last'.by # NULL
                                  /\ [user_id |-> last'.by, role |-> last'.tbl] \in user_roles)
          /\ UNCHANGED db]_vars

\* has_role(I, admin) has just returned false for an identity that holds
\* the student row only, while another identity holds an admin row
C5_Witness ==
  /\ last.op = "has_role" /\ last.tbl = "admin" /\ last.val = "false"
  /\ last.by \in users
  /\ [user_id |-> last.by, role |-> "student"] \in user_roles
  /\ \E r \in user_roles : r.role = "admin"

\* C6: each identity is the user_id of at most one students row.
C6_OneStudentPerIdentity ==
  \A u \in Identities : Cardinality({s \in students : s.user_id = u}) <= 1

\* C7: for an identity I, get_user_student_id(I) is NULL exactly when no
\* students row has user_id = I, and otherwise the id of the single students
\* row owned by I.
C7_StudentIdIsTheSingleOwnedRow ==
  (last.op = "get_user_student_id" /\ last.by \in Identities)
    => LET own == {s \in students : s.user_id = last.by}
       IN  /\ (last.val = NULL) <=> (own = {})
           /\ last.val # NULL => own = {s \in students : s.id = last.val}

\* C8: a signup that creates identity u with username n leaves exactly one
\* profiles row of u, (u, n), and exactly one user_roles row of u,
\* (u, student); it fails only for a username VARCHAR(255) rejects or an
\* error raised from outside the schema; a signup for an identity that
\* exists fails (the trigger, run again for it, raises a unique violation)
\* and leaves the rows of u as they were.
C8_SignupProvisionsOnce ==
  [][last'.op = "signup"
       => LET u == last'.by
          IN  IF u \notin users
                THEN /\ last'.res = "ok"
                        => /\ u \in users'
                           /\ {p \in profiles' : p.user_id = u}
                                = {[user_id |-> u, username |-> last'.val]}
                           /\ {r \in user_roles' : r.user_id = u}
                                = {[user_id |-> u, role |-> "student"]}
                     /\ last'.res # "ok"
                        => \/ last'.res = "57014"
                           \/ last'.res = "22001" /\ Len(last'.val) > VarcharName
                ELSE /\ last'.res # "ok"
                     /\ handle_new_user([id |-> u, username |-> last'.val], "none", users).res
                          = IF Len(last'.val) > VarcharName THEN "22001" ELSE "23505"
                     /\ {p \in profiles' : p.user_id = u} = {p \in profiles : p.user_id = u}
                     /\ {r \in user_roles' : r.user_id = u} = {r \in user_roles : r.user_id = u}
                     /\ Cardinality({p \in profiles' : p.user_id = u}) = 1]_vars

\* a second signup for a provisioned identity has just failed
C8_Witness ==
  /\ last.op = "signup" /\ last.res = "23505"
  /\ last.by \in users
  /\ \E p \in profiles : p.user_id = last.by
  /\ [user_id |-> last.by, role |-> "student"] \in user_roles

\* C9: provisioning is all-or-nothing: a signup ends with the identity, its
\* profile row and its role row all written, or it raises and writes
\* nothing: a new identity whose signup failed, at either INSERT of the
\* trigger, is absent and has no profile row and no role row.
C9_ProvisioningAtomic ==
  [][last'.op = "signup"
       => LET u == last'.by
          IN  \/ /\ last'.res = "ok"
                 /\ u \in users'
                 /\ \E p \in profiles' : p.user_id = u
                 /\ \E r \in user_roles' : r.user_id = u
              \/ /\ last'.res # "ok"
                 /\ UNCHANGED db
                 /\ u \notin users
                      => /\ u \notin users'
                         /\ ~\E p \in profiles' : p.user_id = u
                         /\ ~\E r \in user_roles' : r.user_id = u]_vars

\* the role INSERT of the trigger has just failed, after the profile INSERT
\* went through, for an identity that did not exist
C9_Witness ==
  /\ last.op = "signup" /\ last.tbl = "user_roles" /\ last.res # "ok"
  /\ last.by \notin users
  /\ ~\E p \in profiles : p.user_id = last.by
  /\ ~\E r \in user_roles : r.user_id = last.by

\* C10 as stated: every existing identity has at least one user_roles row.
C10_EveryIdentityHasARole ==
  \A u \in users : \E r \in user_roles : r.user_id = u

\* C10, amended: a successful signup leaves the identity with a role row,
\* and an existing identity loses its last role row only by a DELETE or
\* UPDATE on user_roles issued by an identity that holds the admin role.
C10_RoleKeptUnlessAdminRemoves ==
  [][/\ (last'.op = "signup" /\ last'.res = "ok")
          => \E r \in user_roles' : r.user_id = last'.by
     /\ \A u \in users \cap users' :
          ((\E r \in user_roles : r.user_id = u) /\ ~(\E r \in user_roles' : r.user_id = u))
            => /\ last'.tbl = "user_roles"
               /\ last'.op \in {"delete", "update"}
               /\ HoldsAdminRow(last'.by)]_vars

\* an admin's DELETE has just left an existing identity without role row
C10_Witness ==
  /\ last.op = "delete" /\ last.tbl = "user_roles" /\ last.out = 1
  /\ \E u \in users : ~\E r \in user_roles : r.user_id = u

\* the student role rows the step has written
StudentRowsWritten ==
  {r \in user_roles' \ user_roles : r.role = "student"}

\* C11 as stated: a student role row is written by the provisioning trigger
\* and by no other operation, an admin's INSERT or UPDATE on user_roles
\* included.
C11_OnlyTriggerWritesStudentRole ==
  [][StudentRowsWritten # {} => last'.op = "signup"]_vars

\* C11, amended: a signup that creates an identity fires the trigger once,
\* writing the one row (identity, student); a student role row is written
\* only by that trigger or by an INSERT or UPDATE on user_roles issued by an
\* identity that holds the admin role.
C11_StudentRoleByTriggerOrAdmin ==
  [][/\ (last'.op = "signup" /\ last'.res = "ok")
          => user_roles' \ user_roles = {[user_id |-> last'.by, role |-> "student"]}
     /\ (last'.op = "signup" /\ last'.res # "ok") => user_roles' = user_roles
     /\ (StudentRowsWritten # {} /\ last'.op # "signup")
          => /\ last'.tbl = "user_roles"
             /\ last'.op \in {"insert", "update"}
             /\ HoldsAdminRow(last'.by)]_vars

\* an admin's INSERT has just written the student role row of an identity
\* other than itself
C11_Witness ==
  /\ last.op = "insert" /\ last.tbl = "user_roles" /\ last.res = "ok"
  /\ \E u \in users \ {last.by} :
       /\ last.val = RoleKeyText([user_id |-> u, role |-> "student"])
       /\ [user_id |-> u, role |-> "student"] \in user_roles

\* the students rows that refer to the course the step deletes
Referencing == {s \in students : s.course_id = last'.val}

\* an admin deletes a course that exists
AdminDeletesCourse ==
  /\ last'.op = "delete" /\ last'.tbl = "courses"
  /\ HoldsAdminRow(last'.by)
  /\ \E c \in courses : c.id = last'.val

\* the delete succeeds, the referencing rows, and no others, get course_id
\* NULL with their other columns kept, no students row is removed, and the
\* other courses, their timestamps included, stay as they are
CourseDeleteSetsNull ==
  /\ last'.res = "ok" /\ last'.out = 1
  /\ courses' = {c \in courses : c.id # last'.val}
  /\ \A c \in courses' : stamps'[c.id] = stamps[c.id]
  /\ {s.id : s \in students'} = {s.id : s \in students}
  /\ \A s \in students :
       IF s \in Referencing
         THEN [s EXCEPT !.course_id = NULL] \in students'
         ELSE s \in students' /\ stamps'[s.id] = stamps[s.id]
  /\ UNCHANGED <<users, user_roles, profiles>>

\* C12 as stated: when an admin deletes a course referenced by N students
\* rows, the delete succeeds, exactly those N rows get course_id absent, no
\* students row is removed, and every other attribute of every students row
\* (created_at and updated_at among them) and every other course is
\* unchanged.
C12_CourseDeleteKeepsOtherAttributes ==
  [][AdminDeletesCourse
       => /\ CourseDeleteSetsNull
          /\ \A s \in students : stamps'[s.id] = stamps[s.id]]_vars

\* C12, amended: as stated, except that the updated_at of each of the N
\* referencing rows becomes the time of the delete (the SET NULL is an
\* UPDATE of the row, which fires update_students_updated_at); their
\* created_at is kept.
C12_CourseDeleteSetsNullAndTouches ==
  [][AdminDeletesCourse
       => /\ CourseDeleteSetsNull
          /\ \A s \in Referencing :
               stamps'[s.id] = [stamps[s.id] EXCEPT !.updated_at = clock]]_vars

\* an admin has just deleted a course: one students row has lost its course
\* and carries the time of the delete, later than its insert; the other row
\* still refers to the other course and is as it was inserted
C12_Witness ==
  /\ last.op = "delete" /\ last.tbl = "courses" /\ last.out = 1
  /\ \E s, t \in students :
       /\ s.course_id = NULL
       /\ stamps[s.id].updated_at = clock
       /\ stamps[s.id].created_at < clock
       /\ \E c \in courses : t.course_id = c.id
       /\ stamps[t.id].updated_at = stamps[t.id].created_at

\* C13: deleting an identity I removes every students row with user_id = I,
\* every user_roles row of I and the profiles row of I, leaves the rows of
\* the other identities (and the students rows of no identity) and all
\* courses unchanged, and afterwards has_role(I, r) is false for every r.
C13_IdentityDeleteCascades ==
  [][\A I \in Identities :
       (last'.op = "delete" /\ last'.tbl = "auth.users" /\ last'.by = I)
         => /\ I \in users /\ users' = users \ {I}
            /\ ~\E s \in students' : s.user_id = I
            /\ ~\E r \in user_roles' : r.user_id = I
            /\ ~\E p \in profiles' : p.user_id = I
            /\ students' \subseteq students
            /\ user_roles' \subseteq user_roles
            /\ profiles' \subseteq profiles
            /\ \A s \in students : s.user_id # I => s \in students'
            /\ \A r \in user_roles : r.user_id # I => r \in user_roles'
            /\ \A p \in profiles : p.user_id # I => p \in profiles'
            /\ \A k \in RowKeys' : stamps'[k] = stamps[k]
            /\ courses' = courses
            /\ \A r \in app_role : ~(has_role(I, r))']_vars

\* an identity has just been deleted: it has no row left, while a students
\* row, a role row and the profile row of another identity are in place
C13_Witness ==
  /\ last.op = "delete" /\ last.tbl = "auth.users"
  /\ last.by \notin users
  /\ ~\E s \in students : s.user_id = last.by
  /\ ~\E r \in user_roles : r.user_id = last.by
  /\ \E u \in users :
       /\ \E s \in students : s.user_id = u
       /\ \E r \in user_roles : r.user_id = u
       /\ \E p \in profiles : p.user_id = u

\* the timestamp columns of the row under key k after a successful UPDATE
\* sent with the timestamp payload ts: updated_at is the time of the update,
\* created_at is the value of the payload, or the old one when it has none
StampedByUpdate(k, ts) ==
  /\ stamps'[k].updated_at = clock
  /\ stamps'[k].created_at \in (IF ts.created_at = {} THEN {stamps[k].created_at}
                                 ELSE ts.created_at)
  /\ \A j \in RowKeys' \ {k} : stamps'[j] = stamps[j]

\* C14: after every successful UPDATE of a courses, students or profiles
\* row, updated_at of the row is the time of the update, whatever updated_at
\* the payload carried; created_at and the other columns take the values of
\* the payload.
C14_UpdatedAtIsTimeOfUpdate ==
  [][(last'.op = "update" /\ last'.out = 1 /\ last'.tbl \in TimestampedTables)
       => \A ts \in TimeStampPayloads :
            /\ \A new \in TimeCoursePayloads :
                 (UpdateCourses(last'.by, last'.val, new) /\ ApiCall(ts))
                   => /\ StampedByUpdate(last'.val, ts)
                      /\ ([id |-> last'.val] @@ new) \in courses'
            /\ \A new \in TimeStudentPayloads :
                 (UpdateStudents(last'.by, last'.val, new) /\ ApiCall(ts))
                   => /\ StampedByUpdate(last'.val, ts)
                      /\ ([id |-> last'.val] @@ new) \in students'
            /\ \A new \in TimeProfilePayloads :
                 (UpdateProfiles(last'.by, last'.val, new) /\ ApiCall(ts))
                   => /\ StampedByUpdate(last'.val, ts)
                      /\ new \in profiles']_vars

\* an UPDATE has just succeeded, after time has passed, on a row whose
\* created_at lies ahead of the clock, as only a payload can set it, and
\* whose updated_at is the time of the update
C14_Witness ==
  /\ last.op = "update" /\ last.out = 1 /\ last.tbl \in TimestampedTables
  /\ clock > 0
  /\ stamps[last.val].updated_at = clock
  /\ stamps[last.val].created_at > clock

\* the text that spells a course code held in the table
CodeTexts ==
  CourseCodeTexts \cup {trim(t) : t \in CourseCodeTexts}
    \cup {toUpperCase(trim(t)) : t \in CourseCodeTexts}
Spelling(code) == CHOOSE t \in CodeTexts : Str(t) = code

\* two course codes are equal when letter case is ignored
EqualIgnoringCase(a, b) == toUpperCase(Spelling(a)) = toUpperCase(Spelling(b))

NoTwoCodesEqualIgnoringCase ==
  \A c, d \in courses : c.id # d.id => ~EqualIgnoringCase(c.course_code, d.course_code)

\* C15 as stated: a course created with a code that equals, ignoring letter
\* case, the code of an existing course is rejected as a duplicate and adds
\* no row; and no reachable state holds two courses whose codes are equal
\* ignoring case.
C15_CodesUniqueIgnoringCase ==
  [][/\ \A formData \in CourseForms :
          ( /\ ui.page = "courses" /\ ui.editing = NULL /\ HoldsAdminRow(ui.user)
            /\ courseSchema(formData) = {}
            /\ \E c \in courses :
                 EqualIgnoringCase(c.course_code, Str(trim(formData.course_code)))
            /\ CoursesHandleSubmit(formData) )
            => /\ courses' = courses
               /\ ui'.toast = ToastError(<<"A course with this code already exists">>)
     /\ NoTwoCodesEqualIgnoringCase']_vars

\* the step is Students.handleSubmit creating a student, with a form that
\* passes validation, under an email that a students row holds
CreatesStudentWithTakenEmail(formData) ==
  /\ ui.page = "students" /\ ui.editing = NULL
  /\ studentSchema(formData) = {}
  /\ \E s \in students : s.email = Str(trim(formData.email))
  /\ StudentsHandleSubmit(formData)

\* C16: a student created with the email of an existing students row adds
\* no row, leaves the form dialog open and does not report success, whoever
\* submits the form; the INSERT of an admin (the only one that passes the
\* INSERT policy and so reaches the uniqueness check) is rejected as a
\* duplicate, shown with the duplicate message and the email field marked.
C16_DuplicateEmailRejected ==
  [][\A formData \in StudentForms :
       CreatesStudentWithTakenEmail(formData)
         => /\ students' = students
            /\ ui'.isDialogOpen
            /\ ui'.toast.kind = "error"
            /\ last'.res = IF HoldsAdminRow(ui.user) THEN "23505" ELSE "42501"
            /\ HoldsAdminRow(ui.user)
                 => /\ ui'.toast = ToastError(<<"A student with this email already exists">>)
                    /\ ui'.formErrors = {FieldError("email", "This email is already registered")}]_vars

\* the form has just been refused as a duplicate: the dialog is open on
\* "Add", the email field is marked, and the table holds the one row
C16_Witness ==
  /\ ui.page = "students" /\ ui.isDialogOpen /\ ui.editing = NULL
  /\ last.op = "insert" /\ last.tbl = "students" /\ last.res = "23505"
  /\ ui.toast = ToastError(<<"A student with this email already exists">>)
  /\ FieldError("email", "This email is already registered") \in ui.formErrors
  /\ Cardinality(students) = 1

\* the step is the handleSubmit of the page, sending a statement
SubmitsForm ==
  /\ ui.isDialogOpen
  /\ \/ ui.page = "courses" /\ \E formData \in ValidCourseForms : CoursesHandleSubmit(formData)
     \/ ui.page = "students" /\ \E formData \in ValidStudentForms : StudentsHandleSubmit(formData)

\* the step is the handleDelete of the page
DeletesListed ==
  /\ ~ui.isDialogOpen
  /\ \/ ui.page = "courses" /\ \E id \in CourseIds : CoursesHandleDelete(id)
     \/ ui.page = "students" /\ \E id \in StudentIds : StudentsHandleDelete(id)

\* the duplicate message and the field-level error of a page
DuplicateShown(page, shown) ==
  IF page = "courses"
    THEN /\ shown.toast = ToastError(<<"A course with this code already exists">>)
         /\ shown.formErrors = {FieldError("course_code", "This course code is already in use")}
    ELSE /\ shown.toast = ToastError(<<"A student with this email already exists">>)
         /\ shown.formErrors = {FieldError("email", "This email is already registered")}

\* C17 as stated: every uniqueness violation on a course code or a student
\* email, raised by a create or by an edit of an existing row, is shown as
\* the duplicate error (duplicate message and field-level error), never
\* through the generic save-failure path.
C17_UniquenessShownAsDuplicate ==
  [][(last'.res = "23505" /\ SubmitsForm) => DuplicateShown(ui.page, ui')]_vars

\* C19 as stated: every operation refused by a policy, the UPDATE or DELETE
\* of a students or courses row by a non-admin included, is shown as an
\* error, and handleSubmit and handleDelete report success only when the
\* stored row was changed or removed.
C19_RefusalShownAsError ==
  [][(SubmitsForm \/ DeletesListed)
       => /\ ~HoldsAdminRow(ui.user) => ui'.toast.kind = "error"
          /\ ui'.toast.kind = "success" => last'.out = 1]_vars

AdminOnlyTables == {"courses", "students", "user_roles"}

\* C18: an INSERT, UPDATE or DELETE whose policy predicate is false for the
\* requester (no admin role row, on courses, students and user_roles; on
\* profiles, a row or a new row of another identity, and every DELETE)
\* leaves courses, students, user_roles and profiles exactly as they were.
C18_RefusedWriteHasNoEffect ==
  [][last'.op \in Writes
       => /\ (last'.tbl \in AdminOnlyTables /\ ~HoldsAdminRow(last'.by))
               => UNCHANGED <<db, stamps>>
          /\ (last'.tbl = "profiles" /\ last'.op = "delete")
               => UNCHANGED <<db, stamps>>
          /\ (last'.tbl = "profiles" /\ last'.op = "insert")
               => \A new \in ProfilePayloads :
                    (new.user_id # last'.by /\ InsertProfiles(last'.by, new))
                      => UNCHANGED <<db, stamps>>
          /\ (last'.tbl = "profiles" /\ last'.op = "update")
               => \A new \in ProfilePayloads :
                    ( /\ last'.val # last'.by \/ new.user_id # last'.by
                      /\ UpdateProfiles(last'.by, last'.val, new) )
                      => UNCHANGED <<db, stamps>>
          /\ last'.res = "42501" => UNCHANGED <<db, stamps>>]_vars

\* an identity has just sent an UPDATE of the profile of another identity,
\* which exists with its role rows; a course and a student exist as well
C18_Witness ==
  /\ last.op = "update" /\ last.tbl = "profiles" /\ last.out = 0
  /\ last.by \in users /\ last.val \in users \ {last.by}
  /\ \E p \in profiles : p.user_id = last.val
  /\ courses # {} /\ students # {}

\* the statement was let through by the policies: it did not raise 42501,
\* and an UPDATE or DELETE reached the row it aimed at, if there is one
Granted(l, targets) ==
  /\ l.res # "42501"
  /\ (l.op \in {"update", "delete"} /\ targets # {}) => (l.out = 1 \/ l.res # "ok")

\* the rows of the table of statement l that l aims at
Targets(l) ==
  IF l.tbl = "courses" THEN {c \in courses : c.id = l.val}
  ELSE IF l.tbl = "students" THEN {x \in students : x.id = l.val}
  ELSE {r \in user_roles : RoleKeyText(r) = l.val}

\* C20: a write on courses, students or user_roles is decided from the
\* user_roles rows present when it is sent: it is refused when the requester
\* holds no admin row then (one it held before having been deleted) and
\* granted when it holds one then (one inserted since an earlier refusal);
\* no earlier decision carries over.
C20_DecidedFromRolesAtOperation ==
  [][(last'.op \in Writes /\ last'.tbl \in AdminOnlyTables)
       => IF HoldsAdminRow(last'.by)
            THEN Granted(last', Targets(last'))
            ELSE Refused(last') /\ UNCHANGED <<db, stamps>>]_vars

\* the first admin, whose admin role row is gone, has just been refused the
\* INSERT of a course, in a deployment where the identity that signed up
\* later holds the admin role and a course exists
C20_Witness ==
  /\ last.op = "insert" /\ last.tbl = "courses" /\ last.res = "42501"
  /\ last.by = FirstAdmin /\ FirstAdmin \in users
  /\ ~HoldsAdminRow(FirstAdmin)
  /\ \E u \in users \ {FirstAdmin} : HoldsAdminRow(u)
  /\ courses # {}

\* C21: an identity that holds an admin role row is let through by the
\* policies on every INSERT, UPDATE and DELETE of courses, students and
\* user_roles, and its SELECT of each of the four tables returns every row,
\* also when it holds the student role as well or owns a students row: no
\* clause takes away what another grants.
C21_AdminGrantedEverything ==
  [][HoldsAdminRow(last'.by)
       => /\ (last'.op \in Writes /\ last'.tbl \in AdminOnlyTables)
               => Granted(last', Targets(last'))
          /\ last'.op = "select"
               => last'.out = Cardinality(Rows(last'.tbl))]_vars

\* an identity that holds the admin and the student role and owns a students
\* row has just read both students rows, one of them owned by nobody
C21_Witness ==
  /\ last.op = "select" /\ last.tbl = "students" /\ last.out = 2
  /\ HoldsAdminRow(last.by)
  /\ [user_id |-> last.by, role |-> "student"] \in user_roles
  /\ \E s, t \in students : s.user_id = last.by /\ t.user_id = NULL

\* the profiles rows of identity u
ProfilesOf(u, table) == {p \in table : p.user_id = u}

\* C22: writes on profiles are owner-only: an UPDATE changes a profiles row
\* only when the requester is the row's user_id, and keeps that user_id; an
\* INSERT adds a row only with user_id equal to the requester; holding the
\* admin role grants neither on the profile of another identity.
C22_ProfileWritesOwnerOnly ==
  [][last'.tbl = "profiles"
       => /\ \A u \in Identities :
               ProfilesOf(u, profiles') # ProfilesOf(u, profiles) => last'.by = u
          /\ (last'.op = "update" /\ last'.out = 1)
               => /\ last'.val = last'.by
                  /\ Cardinality(ProfilesOf(last'.by, profiles')) = 1
          /\ (last'.op = "insert" /\ last'.res = "ok")
               => profiles' \ profiles \subseteq ProfilesOf(last'.by, profiles')
          /\ last'.op \in Writes => UNCHANGED <<users, courses, students, user_roles>>]_vars

\* an identity that holds the admin role has just aimed an UPDATE at the
\* profile of another identity, which is as it was provisioned
C22_Witness ==
  /\ last.op = "update" /\ last.tbl = "profiles" /\ last.out = 0
  /\ HoldsAdminRow(last.by)
  /\ last.val \in users \ {last.by}
  /\ [user_id |-> last.val, username |-> NULL] \in profiles

\* the rows of user_roles or profiles a SELECT by uid returns
Visible(tbl, uid) ==
  IF tbl = "user_roles" THEN user_roles_visible(uid) ELSE profiles_visible(uid)

\* C23: a SELECT on user_roles or profiles by an identity that holds no
\* admin role row returns exactly the rows whose user_id is that identity,
\* never a row of another identity; the SELECT of an admin returns every row
\* of the table.
C23_NonAdminReadsOwnRowsOnly ==
  (last.op = "select" /\ last.tbl \in {"user_roles", "profiles"})
    => LET own == {r \in Rows(last.tbl) : r.user_id = last.by}
       IN  IF HoldsAdminRow(last.by)
             THEN /\ Visible(last.tbl, last.by) = Rows(last.tbl)
                  /\ last.out = Cardinality(Rows(last.tbl))
             ELSE /\ Visible(last.tbl, last.by) = own
                  /\ last.out = Cardinality(own)

\* an identity that holds the student role only has just read user_roles
\* and got its one row, while the other identity holds two role rows
C23_Witness ==
  /\ last.op = "select" /\ last.tbl = "user_roles" /\ last.out = 1
  /\ ~HoldsAdminRow(last.by)
  /\ [user_id |-> last.by, role |-> "student"] \in user_roles
  /\ \E u \in users \ {last.by} : Cardinality({r \in user_roles : r.user_id = u}) = 2
  /\ Cardinality(profiles) = 2

\* the rows of identity u in a table of rows with a user_id
RowsOf(u, table) == {r \in table : r.user_id = u}

\* the step commits the transaction of session t
Commits(t) == txs[t].pc = "commit" /\ txs'[t] = Idle

\* the next write of the signup in session t
NextSignupWrite(t) ==
  LET x == txs[t]
  IN  IF x.pc = "profiles"
        THEN [x EXCEPT !.adds.profiles = @ \cup {[user_id |-> x.by, username |-> x.val]}]
        ELSE [x EXCEPT !.adds.user_roles = @ \cup {[user_id |-> x.by, role |-> "student"]}]

\* C24: signups of distinct identities are independent under every
\* interleaving of their statements: a signup that commits leaves its
\* identity with exactly one profiles row and exactly one role row,
\* (identity, student); no step of it changes the rows of another identity;
\* it never waits for the other; and it fails only for a cause of its own (a
\* username VARCHAR(255) rejects, an error from outside the schema, or its
\* identity existing already).
C24_ConcurrentSignupsIndependent ==
  [][/\ \A t \in Sessions :
          (Commits(t) /\ txs[t].op = "signup")
            => LET u == txs[t].by
               IN  /\ u \in users'
                   /\ RowsOf(u, profiles') = {[user_id |-> u, username |-> txs[t].val]}
                   /\ RowsOf(u, user_roles') = {[user_id |-> u, role |-> "student"]}
                   /\ \A v \in Identities \ {u} :
                        /\ RowsOf(v, profiles') = RowsOf(v, profiles)
                        /\ RowsOf(v, user_roles') = RowsOf(v, user_roles)
                        /\ v \in users' <=> v \in users
     /\ (\A t \in Sessions : ~Commits(t)) => UNCHANGED db
     /\ \A t \in Sessions :
          (txs'[t].op = "signup" /\ txs'[t].pc # "commit") => ~(Waits(t, NextSignupWrite(t)))'
     /\ (last'.op = "signup" /\ last'.res # "ok")
          => \/ last'.res = "57014"
             \/ last'.res = "22001" /\ Len(last'.val) > VarcharName
             \/ last'.res = "23505" /\ last'.tbl = "auth.users" /\ last'.by \in users]_vars

\* the signup of one identity has just committed while the signup of the
\* other, with the same username, has written its rows and not committed
C24_Witness ==
  /\ last.op = "signup" /\ last.res = "ok"
  /\ RowsOf(last.by, profiles) = {[user_id |-> last.by, username |-> "alice"]}
  /\ \E t \in Sessions :
       /\ txs[t].op = "signup" /\ txs[t].pc = "commit"
       /\ txs[t].by \notin users \cup {last.by}
       /\ txs[t].val = "alice"

\* the course codes in capitals
UpperCaseCodes == {Str(t) : t \in {t \in CodeTexts : toUpperCase(t) = t}}

\* C25: Courses.handleSubmit, on create and on edit, sends no INSERT or
\* UPDATE unless the trimmed name and the trimmed code have 2 characters or
\* more and the duration is an integer in 1..120; the code it sends is the
\* trimmed code in capitals; so every course row written through the form
\* has a code in capitals and a duration in 1..120.
C25_FormValidatesBeforeSending ==
  [][/\ (ui.page = "courses" /\ ui.isDialogOpen)
          => \A formData \in CourseInputForms :
               CoursesHandleSubmit(formData)
            => IF /\ Len(trim(formData.course_name)) >= 2
                  /\ Len(trim(formData.course_code)) >= 2
                  /\ formData.course_duration \in 1..120
                 THEN /\ last'.tbl = "courses"
                      /\ last'.op = IF ui.editing = NULL THEN "insert" ELSE "update"
                      /\ last'.out = 1
                           => \E c \in courses' :
                                /\ c.course_code = Str(toUpperCase(trim(formData.course_code)))
                                /\ c.course_name = Str(trim(formData.course_name))
                                /\ c.course_duration = formData.course_duration
                                /\ ui.editing # NULL => c.id = ui.editing
                                /\ courses' \ courses \subseteq {c}
                 ELSE UNCHANGED <<db, last, stamps>> /\ ui'.formErrors # {}
     /\ \A c \in courses' : c.course_code \in UpperCaseCodes /\ c.course_duration \in 1..120]_vars

\* the admin has just saved the edit of a course, typed in small letters
\* with a blank in front, under the longest duration; the other course has
\* the shortest
C25_Witness ==
  /\ ui.page = "courses" /\ ui.editing # NULL /\ ~ui.isDialogOpen
  /\ last.op = "update" /\ last.tbl = "courses" /\ last.out = 1
  /\ \E c, d \in courses :
       /\ c.id = last.val /\ c.course_code = "MA201" /\ c.course_duration = 120
       /\ d.course_duration = 1

\* the admin role rows of a user_roles table
AdminRows(table) == {r \in table : r.role = "admin"}

\* C26: an admin role row is inserted, changed or deleted only by a
\* statement on user_roles whose requester holds the admin role when it is
\* sent, or removed by the cascade of deleting its identity; so from a state
\* in which no identity is admin, no signup and no request makes one.
C26_AdminRowsWrittenByAdminsOnly ==
  [][/\ AdminRows(user_roles') # AdminRows(user_roles)
          => \/ /\ last'.tbl = "user_roles" /\ last'.op \in Writes
                /\ HoldsAdminRow(last'.by)
             \/ /\ last'.tbl = "auth.users" /\ last'.op = "delete"
                /\ AdminRows(user_roles') = {r \in AdminRows(user_roles) : r.user_id # last'.by}
     /\ AdminRows(user_roles) = {} => AdminRows(user_roles') = {}]_vars

\* in a deployment where both identities signed up and none is admin, one
\* has just aimed an UPDATE at its own student role row
C26_Witness ==
  /\ users = Identities /\ AdminRows(user_roles) = {}
  /\ last.op = "update" /\ last.tbl = "user_roles" /\ last.out = 0
  /\ last.val = RoleKeyText([user_id |-> last.by, role |-> "student"])
  /\ [user_id |-> last.by, role |-> "student"] \in user_roles

\* C27: in every reachable state each existing identity has exactly one
\* profiles row: a DELETE on profiles removes no row, whoever sends it; the
\* INSERT of a second profile by an identity for itself is rejected as a
\* unique violation; and a successful UPDATE leaves the row with the
\* user_id it had.
C27_OneProfilePerIdentity ==
  [][/\ \A u \in users' : Cardinality(RowsOf(u, profiles')) = 1
     /\ \A p \in profiles' : p.user_id \in users'
     /\ last'.tbl = "profiles"
          => /\ last'.op = "delete" => (last'.out = 0 /\ profiles' = profiles)
             /\ last'.op = "insert"
                  => /\ profiles' = profiles
                     /\ \A new \in ProfilePayloads :
                          (new.user_id = last'.by /\ last'.by \in users
                             /\ InsertProfiles(last'.by, new))
                            => last'.res = "23505"
             /\ (last'.op = "update" /\ last'.out = 1)
                  => /\ RowsOf(last'.val, profiles) # {}
                     /\ {p.user_id : p \in profiles'} = {p.user_id : p \in profiles}]_vars

\* both identities exist, each with its one profile, and one of them has
\* just been refused the INSERT of a second profile of its own
C27_Witness ==
  /\ users = Identities
  /\ last.op = "insert" /\ last.tbl = "profiles" /\ last.res = "23505"
  /\ Cardinality(RowsOf(last.by, profiles)) = 1
  /\ \E p \in profiles : p.user_id # last.by /\ p.username # NULL

\* the ids of the committed courses
CourseIdsHeld == {c.id : c \in courses}

\* C28: under every interleaving of course deletes with student inserts and
\* updates, the course_id of every students row is NULL or the id of a
\* course that exists, and so is the course_id of every students row
\* written and not yet committed; an INSERT or UPDATE of a students row that
\* names a course that does not exist is rejected and writes nothing.
C28_CourseReferencesValid ==
  [][/\ \A s \in students' : s.course_id = NULL \/ s.course_id \in CourseIdsHeld'
     /\ \A t \in Sessions :
          \A a \in txs'[t].adds.students : a.course_id = NULL \/ a.course_id \in CourseIdsHeld'
     /\ \A t \in Sessions, new \in StudentPayloadsEnrolled :
          (new.course_id # NULL /\ new.course_id \notin CourseIdsHeld /\ txs[t] = Idle)
            => /\ ExecInsertStudents(t, FirstAdmin, new)
                    => (last'.res \in {"42501", "23505", "23503"} /\ UNCHANGED <<db, txs>>)
               /\ \A id \in StudentIds :
                    (last'.val = id /\ ExecUpdateStudents(t, FirstAdmin, id, new))
                      => ( /\ last'.out = 0
                           /\ (\E s \in students : s.id = id)
                                => last'.res \in {"42501", "23505", "23503"}
                           /\ UNCHANGED <<db, txs>> )]_vars

\* a session has just been refused the INSERT of a student that names a
\* course gone from the table, next to a students row that lost its course,
\* while the other session has the delete of the remaining course in flight
C28_Witness ==
  /\ last.op = "insert" /\ last.tbl = "students" /\ last.res = "23503"
  /\ \E s \in students : s.course_id = NULL
  /\ \E t \in Sessions :
       /\ txs[t].op = "delete" /\ txs[t].tbl = "courses"
       /\ txs[t].dels.courses = courses /\ courses # {}

\* the rows of a table together with the rows the sessions have written and
\* not committed, less the row versions those replace
WithInFlight(tbl) ==
  (Rows(tbl) \ UNION {txs[t].dels[tbl] : t \in Sessions})
    \cup UNION {txs[t].adds[tbl] : t \in Sessions}

\* C29: under every interleaving of two requests of an admin, INSERTs or
\* UPDATEs, that would give two courses the same code or two students the
\* same email, at most one commits: no state holds two courses with one code
\* or two students with one email, the rows written and not yet committed
\* counted in, and the request that loses is rejected as a unique violation.
C29_UniqueUnderInterleaving ==
  [][/\ \A c, d \in WithInFlight("courses")' : c.course_code = d.course_code => c = d
     /\ \A s, r \in WithInFlight("students")' : s.email = r.email => s = r
     /\ \A c, d \in courses' : c.course_code = d.course_code => c = d
     /\ \A s, r \in students' : s.email = r.email => s = r
     /\ \A t \in Sessions :
          (txs[t] = Idle /\ txs'[t] = Idle /\ last'.op \in {"insert", "update"} /\ last'.out = 0)
            => \A new \in EnrollCoursePayloads :
                 ( /\ \E c \in courses : c.course_code = new.course_code /\ c.id # last'.val
                   /\ \/ ExecInsertCourses(t, FirstAdmin, new)
                      \/ ExecUpdateCourses(t, FirstAdmin, last'.val, new) /\ last'.res # "ok" )
                   => last'.res = "23505"]_vars

\* the UPDATE that would give the second course the code of the first has
\* just been rejected, while the other session has the INSERT of a student
\* in flight under the email of no committed row
C29_Witness ==
  /\ last.op = "update" /\ last.tbl = "courses" /\ last.res = "23505"
  /\ Cardinality(courses) = 2
  /\ \E t \in Sessions :
       /\ txs[t].op = "insert" /\ txs[t].tbl = "students"
       /\ \A a \in txs[t].adds.students : \A s \in students : s.email # a.email

\* C30: in the Dashboard, when isAdmin changes from false to true while an
\* earlier fetchStudentProfile is in flight, the admin view never has
\* loading = false before fetchAdminStats has completed: under every order
\* of the answers, statistics shown as loaded come with no fetchAdminStats
\* still in flight.
C30_AdminViewLoadedAfterStats ==
  (ui.page = "dashboard" /\ ui.isAdmin /\ ~ui.loading)
    => \A f \in ui.fetches : f.kind # "fetchAdminStats"
====
